---- MODULE Spec2Model ----
(***************************************************************************)
(* Iterative Gaussian fit-window shrinking (iterativeFitMethod1/2) and the *)
(* harness plot_inclusive_iterations that runs it over the named           *)
(* sub-distributions of one calorimeter layer.                             *)
(*                                                                         *)
(* C++ doubles are modelled as extended fixed-point numbers: a record      *)
(* [c, v] with class c in {"fin","nan","pinf","ninf"} and, for a finite    *)
(* number, its value v in tenths (v = 17 is 1.7).  The fitted values       *)
(* the model draws are whole numbers, so every product k*sigma and every   *)
(* quotient chi2/ndf that is computed is exact in tenths.                  *)
(*                                                                         *)
(* Spec runs the harness (both macros) with small max_iterations; SpecFit  *)
(* runs one call of the fit loop with the default cap of 5000 iterations   *)
(* and a wider set of fit outcomes.                                        *)
(***************************************************************************)
EXTENDS Integers, Sequences, FiniteSets, TLC

VARIABLES
    pc,             \* position of the harness: start, open, lookup, fit, fitted, done, returned
    variant,        \* "inclusive" (plots/plot_iterations.C), "track" (plots/cali/plot_track_iterations.C)
                    \* or "plot_tracks" (the earlier macro plot_tracks)
    layer_name,     \* argument layer_name
    layer_ok,       \* layers.find(layer) != layers.end()
    root_file,      \* what TFile::Open returned: "ok", "null" or "zombie"
    store,          \* slots (names) whose histogram the file holds
    hist_empty,     \* the histogram being fitted has zero entries
    fit_method,     \* argument fit_method
    max_iterations, \* argument max_iterations
    idx,            \* slot the nested loops are at, 1..NumSlots+1
    fit_function,   \* the TF1 of the current sub-distribution: [p1, p2, chisquare, ndf]
    mean, sigma, chi2_ndf, iteration, fit_min, fit_max, good_fit,
    results,        \* result vectors, one per suffix: sequence of [mu, sigma, chi2, iterations]
    drawn,          \* per fitted pad, in order: the "iterations = %d" label and the fit-range lines
    reported,       \* the vectors as printed after the loops
    saved,          \* canvas->SaveAs was reached
    errs,           \* messages written to std::cerr, in order
    looked,         \* slots for which root_file->Get was called
    fit_calls,      \* hist->Fit calls made for the current sub-distribution
    first_good,     \* index of the first of them with chi2/ndf below the threshold, 0 if none
    narrowed,       \* the latest fit failed and left a window narrower than the one it was issued with
    fitted_slots,   \* slots for which hist->Fit was called at least once
    all_finite,     \* every fit of the current sub-distribution returned finite mean and sigma
    fit_log,        \* per fitted sub-distribution, in order: what its fit loop did
    modified,       \* slots whose histogram object held by the file was fitted, drawn or restyled
    hist_clone,     \* the histogram object the current pass works on: [of, id]
    made,           \* number of (clone, fit function) pairs created so far
    oracle,         \* the fit as a function: the outcome it gave for each (window, parameters) met
    first_run,      \* what the first of two runs of the fit loop issued and returned
    windows,        \* the fit windows issued by the current run, in order
    entry,          \* process_file: number of tree entries (events) processed so far
    truthVtx,       \* truth vertices of the current event: sequence of [hs, pos]
    recoVtx,        \* reco vertices of the current event: sequence of [hs, pos]
    ncells,         \* cells of the current event that pass the cell selection
    vtx_i,          \* index i of the loop over the truth vertices, from 1
    truthTimeFills, \* truth vertices of the current event that filled truthTimeHist, in order
    eventCellFills, \* ... that filled eventCellHist, embCellHist and emeCellHist
    eventTimeFills, \* ... that filled eventTimeHist and eventDeltaTimeHist
    jets_found,     \* event display: global counter of the jets that passed all cuts
    jets_with_histograms,  \* global counter of the per-jet cell histograms
    jet_cells_hists,       \* size of the global vector of the per-jet histograms
    all_jets_pt,    \* size of the global vectors all_jets_pt, all_jets_eta, ...
    hists_deleted,  \* the pointers held by jet_cells_hists have been deleted
    created,        \* per-jet histograms made by new TH2F since the current call began
    calls,          \* calls of event_display_analysis_with_cuts made in this session
    cell,           \* HS-only reconstruction: the cell j the cell loop is at, with the tracks of the event
    cell_out,       \* what the pass of the cell loop did with it: [bin, passed, used, emb, eme]
    cells,          \* HS-only reconstruction: the cells of the current event
    all_cell_used_counter, emb_cell_used_counter, eme_cell_used_counter,
    cellCounts,     \* per truth vertex that reached the fills, in order: the values filled into
                    \* eventCellHist, embCellHist, emeCellHist and the cells added to its sums
    found_events,   \* event_display_analysis: the global map found_events, by jet count
    jets_stored,    \* size of jets_pt_map[c] (and of the eta and phi vectors), by jet count
    file_i,         \* index i of the loop over the files
    pick_entry,     \* index entry of the loop over the events of the file being read
    nEntries,       \* tree->GetEntries() of that file
    seen,           \* jet counts of the events with a valid truth vertex read so far in this call
    pick_calls,     \* calls of event_display_analysis made in this session
    caller,         \* fit_all_layers / process_single_layer: the function the user called
    can_create,     \* the results file can be created (std::ofstream, truncating)
    can_append,     \* the results file can be opened for appending
    results_file,   \* what has been written to the results file, in order
    fitted_layers,  \* layers whose fits plot_inclusive_iterations has run, in order
    exit_status,    \* status the process ended with, -1 while it runs
    after_call,     \* the statements after the call of process_single_layer have run
    task_i,         \* batch_plot_analysis.sh: index i of the loop over ANALYSIS_TASKS
    MEANS, SIGMAS, DESCRIPTIONS,   \* the three summary arrays
    MEAN, SIGMA,    \* shell variables: what was extracted from the output of ROOT
    choice,         \* shell variable: the answer to "Enter 'm' for manual input"
    manual_mean, manual_sigma      \* shell variables: the values typed by hand

vars == << pc, variant, layer_name, layer_ok, root_file, store, hist_empty, fit_method, max_iterations, idx,
           fit_function, mean, sigma, chi2_ndf, iteration, fit_min, fit_max, good_fit,
           results, drawn, reported, saved, errs, looked, fit_calls, first_good,
           narrowed, fitted_slots, all_finite, fit_log, modified, hist_clone,
           made, oracle, first_run, windows, entry, truthVtx, recoVtx, ncells, vtx_i,
           truthTimeFills, eventCellFills, eventTimeFills, jets_found,
           jets_with_histograms, jet_cells_hists, all_jets_pt, hists_deleted, created, calls,
           cell, cell_out, cells, all_cell_used_counter, emb_cell_used_counter,
           eme_cell_used_counter, cellCounts, found_events, jets_stored, file_i, pick_entry,
           nEntries, seen, pick_calls, caller, can_create, can_append, results_file,
           fitted_layers, exit_status, after_call,
           task_i, MEANS, SIGMAS, DESCRIPTIONS, MEAN, SIGMA, choice, manual_mean, manual_sigma >>

----------------------------------------------------------------------------
(* Extended fixed-point numbers *)

Fin(n) == [c |-> "fin", v |-> n]
NaN == [c |-> "nan", v |-> 0]
PInf == [c |-> "pinf", v |-> 0]
NInf == [c |-> "ninf", v |-> 0]

IsFinite(x) == x.c = "fin"

Neg(x) ==
    CASE x.c = "fin" -> Fin(0 - x.v)
      [] x.c = "pinf" -> NInf
      [] x.c = "ninf" -> PInf
      [] OTHER -> NaN

\* IEEE addition: NaN is absorbing, inf + (-inf) is NaN
Add(x, y) ==
    CASE x.c = "nan" \/ y.c = "nan" -> NaN
      [] x.c = "fin" /\ y.c = "fin" -> Fin(x.v + y.v)
      [] x.c = "fin" -> y
      [] y.c = "fin" -> x
      [] x.c = y.c -> x
      [] OTHER -> NaN

Sub(x, y) == Add(x, Neg(y))

\* k * x for a positive finite multiplier k given in tenths
Mul(k, x) ==
    CASE x.c = "fin" -> Fin((k * x.v) \div 10)
      [] OTHER -> x

\* double / int: x / 0 is +inf for x > 0, NaN for x = 0 (x is never negative here)
Div(x, n) ==
    CASE x.c = "nan" -> NaN
      [] n = 0 /\ x.c = "fin" /\ x.v = 0 -> NaN
      [] n = 0 /\ x.c = "fin" /\ x.v > 0 -> PInf
      [] n = 0 /\ x.c = "fin" -> NInf
      [] x.c = "fin" -> Fin(x.v \div n)
      [] OTHER -> x

\* IEEE x < y: false as soon as one side is NaN
Less(x, y) ==
    CASE x.c = "nan" \/ y.c = "nan" -> FALSE
      [] x.c = "fin" /\ y.c = "fin" -> x.v < y.v
      [] x.c = "ninf" -> y.c # "ninf"
      [] y.c = "pinf" -> x.c # "pinf"
      [] OTHER -> FALSE

LessEq(x, y) ==
    CASE x.c = "nan" \/ y.c = "nan" -> FALSE
      [] OTHER -> ~Less(y, x)

----------------------------------------------------------------------------
(* Inputs of one run *)

\* energy-bin names of a layer (the layers table gives each layer 7): the
\* inclusive macro fits one histogram per name, the track macro three
NumBins == 2
NumTrackBins == 1
\* largest max_iterations argument the harness is run with
MaxIter == 2
\* default of the max_iterations argument, used for a single long fit loop
DefaultMaxIterations == 5000

\* default of the chi2_threshold argument: 1.0
chi2_threshold == Fin(10)

\* the energy-bin part of the 7 names of a layer
BinSuffixes == << "1-1.5", "1.5-2", "2-3", "3-4", "4-5", "5-10", "Above-10" >>

\* std::map layers: layer name -> its histogram names <<layer, bin>>
layers ==
    [l \in {"EMB1", "EMB2", "EMB3", "EME1", "EME2", "EME3"} |->
        [i \in 1..Len(BinSuffixes) |-> << l, BinSuffixes[i] >>]]

\* every name but the empty one accepted
LayerValidAny(name) == name # ""

\* layers.find(layer) != layers.end()
LayerValid(name) == name \in DOMAIN layers

\* layer names the harness is run with: the default and names that are not in
\* the table (std::map compares whole strings, case included)
LayerInputs == {"EMB3", "EMB4", "emb3", ""}

\* suffixes = {"_matched_track_HS", "_matched_track_PU", "_other"} in the track
\* macro and in plot_tracks; the inclusive macro has no suffix loop
NumSuffixes(v) == IF v = "inclusive" THEN 1 ELSE 3

Bins(v) == IF v = "track" THEN NumTrackBins ELSE NumBins

NumSlots(v) == Bins(v) * NumSuffixes(v)

\* slot n is the n-th pass of the nested loops: bin i (outer), suffix (inner)
BinOf(n, v) == ((n - 1) \div NumSuffixes(v)) + 1
SuffixOf(n, v) == ((n - 1) % NumSuffixes(v)) + 1

\* the histogram stored under slot n: axis range, GetMean, GetStdDev
Hist(n) == [xmin |-> Fin(0 - 1000 * n), xmax |-> Fin(1000 * n),
            mean |-> Fin(10 * n), stddev |-> Fin(100)]

\* a TF1 right after new TF1(name, "gaus", fit_min, fit_max)
NewTF1 == [p1 |-> Fin(0), p2 |-> Fin(0), chisquare |-> Fin(0), ndf |-> 0]

\* what hist->Fit can leave in the fit function: parameter 1 (mean),
\* parameter 2 (sigma), chi-square and ndf
GoodFit == [p1 |-> Fin(0), p2 |-> Fin(10), chisquare |-> Fin(4), ndf |-> 2]
BadFit == [p1 |-> Fin(10), p2 |-> Fin(20), chisquare |-> Fin(40), ndf |-> 1]
NanFit == [p1 |-> NaN, p2 |-> NaN, chisquare |-> Fin(0), ndf |-> 0]

\* what a fit of a histogram without entries can leave: no point in the fit
\* (ndf = 0) and no usable width
EmptyFit(o) == o.ndf = 0 /\ ~(IsFinite(o.p2) /\ o.p2.v > 0)

\* the outcomes drawn in a run of the harness: a fit that meets the threshold
\* and a degenerate one (what an empty histogram gives); the histograms of
\* these runs have entries
FitOutcomes == {GoodFit, NanFit}

\* the outcomes drawn in a single call of the fit loop
AllFitOutcomes ==
    FitOutcomes \cup
    { BadFit,
      [p1 |-> Fin(10), p2 |-> Fin(10), chisquare |-> Fin(20), ndf |-> 2],   \* narrower, chi2/ndf = threshold
      [p1 |-> Fin(0), p2 |-> Fin(0), chisquare |-> Fin(40), ndf |-> 0],     \* sigma = 0, ndf = 0
      [p1 |-> Fin(0), p2 |-> Fin(-10), chisquare |-> Fin(40), ndf |-> 1],   \* sigma < 0
      [p1 |-> Fin(0), p2 |-> Fin(-10), chisquare |-> Fin(4), ndf |-> 2] }   \* sigma < 0, low chi2

----------------------------------------------------------------------------
(* iterativeFitMethod1 / iterativeFitMethod2 *)

\* the cap compared with <= : one pass too many
LoopCondInclusive(g, it, mx) == ~g /\ it <= mx

\* while (!good_fit && iteration < max_iterations)
LoopCond(g, it, mx) == ~g /\ it < mx

\* the comparison written the wrong way round
ThresholdMetReversed(c, t) == Less(t, c)

\* if (chi2_ndf < chi2_threshold)
ThresholdMet(c, t) == Less(c, t)

\* the breakpoints of the 3-step schedule tested with >= : each step one
\* iteration early
Multiplier1Early(it) ==
    IF it >= 3000 THEN 15
    ELSE IF it >= 1000 THEN 17
    ELSE 20

\* half-width multiplier in tenths, 3-step schedule of iterativeFitMethod1
Multiplier1(it) ==
    IF it > 3000 THEN 15
    ELSE IF it > 1000 THEN 17
    ELSE 20

\* the 1.7 and 1.5 steps of the 5-step schedule exchanged
Multiplier2Swapped(it) ==
    IF it > 4000 THEN 7
    ELSE IF it > 3000 THEN 10
    ELSE IF it > 2000 THEN 17
    ELSE IF it > 1000 THEN 15
    ELSE 20

\* 5-step schedule of iterativeFitMethod2
Multiplier2(it) ==
    IF it > 4000 THEN 7
    ELSE IF it > 3000 THEN 10
    ELSE IF it > 2000 THEN 15
    ELSE IF it > 1000 THEN 17
    ELSE 20

\* if (fit_method == 1) iterativeFitMethod1(...) else iterativeFitMethod2(...)
Multiplier(method, it) == IF method = 1 THEN Multiplier1(it) ELSE Multiplier2(it)

\* the upper edge always set to two sigma, whatever the schedule says
ShrinkMaxTwoSigma(k, m, s) == Add(m, Mul(20, s))

\* fit_min = mean - k * sigma;  fit_max = mean + k * sigma
ShrinkMin(k, m, s) == Sub(m, Mul(k, s))
ShrinkMax(k, m, s) == Add(m, Mul(k, s))

\* iteration++ moved out of the else branch
NextIterationAlways(met, it) == it + 1

\* iteration++ in the else branch only
NextIteration(met, it) == IF met THEN it ELSE it + 1

\* the value pushed into iterations / iterations_HS / ... and drawn on the pad
IterationsUsed(it) == it + 1

\* the entry pushed for a histogram that is not in the file
Sentinel == [mu |-> NaN, sigma |-> NaN, chi2 |-> NaN, iterations |-> -1]

\* the zombie test left out
SourceUnavailableNullOnly(f) == f = "null"

\* !root_file || root_file->IsZombie()
SourceUnavailable(f) == f = "null" \/ f = "zombie"

\* the counter, the flag and the window declared outside the loop, so that
\* they are carried from one pass to the next
SetupFitCarried(h, old) ==
    [mean |-> h.mean, sigma |-> h.stddev, fit_min |-> old.fit_min, fit_max |-> old.fit_max,
     chi2_ndf |-> Fin(9990), iteration |-> old.iteration, good_fit |-> old.good_fit,
     fit_function |-> NewTF1]

\* the fit function of the previous pass used again, with the parameters it was left with
SetupFitStaleFunction(h, old) ==
    [mean |-> h.mean, sigma |-> h.stddev, fit_min |-> h.xmin, fit_max |-> h.xmax,
     chi2_ndf |-> Fin(9990), iteration |-> 0, good_fit |-> FALSE,
     fit_function |-> old.fit_function]

\* locals of one pass of the harness loop, before the fit loop
SetupFit(h, old) ==
    [mean |-> h.mean, sigma |-> h.stddev, fit_min |-> h.xmin, fit_max |-> h.xmax,
     chi2_ndf |-> Fin(9990), iteration |-> 0, good_fit |-> FALSE,
     fit_function |-> NewTF1]

PushResult(res, s, e) == [res EXCEPT ![s] = Append(@, e)]

\* the missing branch of plot_focus: continue without an entry
PushMissingNothing(res, s) == res

\* the branch for a missing histogram: push the sentinel, continue
PushMissing(res, s) == PushResult(res, s, Sentinel)

\* the loops' increments
NextSlot(n) == n + 1

NoResults == [s \in 1..3 |-> << >>]

\* no pass is under way: hist_clone is not in scope
NoClone == [of |-> 0, id |-> 0]

\* the object hist->Fit is called on, given as (slot, id): the object held by
\* the file, which has id 0, instead of the clone
FitObjectStored(slot, clone) == [of |-> slot, id |-> 0]

\* the fit loop is handed hist_clone
FitObject(slot, clone) == clone

\* TH1* hist_clone = (TH1*)hist->Clone(): the n-th object made
Clone(slot, n) == [of |-> slot, id |-> n]

\* no run of the fit loop has been completed yet
NoRun == [done |-> FALSE]

----------------------------------------------------------------------------
(* plot_inclusive_iterations *)

CurrentLocals ==
    [mean |-> mean, sigma |-> sigma, fit_min |-> fit_min, fit_max |-> fit_max,
     chi2_ndf |-> chi2_ndf, iteration |-> iteration, good_fit |-> good_fit,
     fit_function |-> fit_function]

\* before the first pass of the loops there is nothing to carry over
NoLocals ==
    [mean |-> Fin(0), sigma |-> Fin(0), fit_min |-> Fin(0), fit_max |-> Fin(0),
     chi2_ndf |-> Fin(0), iteration |-> 0, good_fit |-> FALSE,
     fit_function |-> NewTF1]

\* process_file has not been called
IdleReco ==
    /\ entry = 0
    /\ truthVtx = << >> /\ recoVtx = << >>
    /\ ncells = 0
    /\ vtx_i = 1
    /\ truthTimeFills = << >> /\ eventCellFills = << >> /\ eventTimeFills = << >>

\* the event display macro has been loaded and not called: the globals have
\* their initialisers
IdleDisplay ==
    /\ jets_found = 0
    /\ jets_with_histograms = 0
    /\ jet_cells_hists = 0
    /\ all_jets_pt = 0
    /\ hists_deleted = FALSE
    /\ created = 0
    /\ calls = 0

NoSelection == [bin |-> -1, passed |-> FALSE, used |-> FALSE, emb |-> FALSE, eme |-> FALSE]

\* the cell loop of the HS-only reconstruction is not running
IdleCell ==
    /\ cell = [e |-> 0, significance |-> 0, is_barrel |-> FALSE, is_endcap |-> FALSE,
               layer |-> 0, tracks |-> << >>]
    /\ cell_out = NoSelection

\* process_file of the HS-only reconstruction has not been called
IdleEvent ==
    /\ cells = << >>
    /\ all_cell_used_counter = 0
    /\ emb_cell_used_counter = 0
    /\ eme_cell_used_counter = 0
    /\ cellCounts = << >>

\* std::vector<int> target_jet_counts = {1, 2, 3, 4, 5, 6, 7, 8}
NumTargets == 8
target_jet_counts == 1..NumTargets

\* event_display_analysis has not been called: no count found, nothing stored
IdlePick ==
    /\ found_events = [c \in target_jet_counts |-> FALSE]
    /\ jets_stored = [c \in target_jet_counts |-> 0]
    /\ file_i = 1
    /\ pick_entry = 0
    /\ nEntries = 0
    /\ seen = {}
    /\ pick_calls = 0

\* neither fit_all_layers nor process_single_layer has been called
IdleLayers ==
    /\ caller = "none"
    /\ can_create = TRUE
    /\ can_append = TRUE
    /\ results_file = << >>
    /\ fitted_layers = << >>
    /\ exit_status = -1
    /\ after_call = FALSE

\* an unset or empty shell variable
Empty == [task |-> -1, text |-> ""]

\* batch_plot_analysis.sh is not running: no array, no shell variable set
IdleBatch ==
    /\ task_i = 0
    /\ MEANS = << >>
    /\ SIGMAS = << >>
    /\ DESCRIPTIONS = << >>
    /\ MEAN = Empty
    /\ SIGMA = Empty
    /\ choice = ""
    /\ manual_mean = Empty
    /\ manual_sigma = Empty

\* the programs modelled further down are not running
IdleRest == IdleCell /\ IdleEvent /\ IdlePick /\ IdleLayers /\ IdleBatch

Init ==
    /\ pc = "start"
    /\ variant \in {"inclusive", "track"}
    /\ layer_name \in LayerInputs
    /\ layer_ok = LayerValid(layer_name)
    /\ root_file \in {"ok", "null", "zombie"}
    /\ store \in SUBSET (1..NumSlots(variant))
    /\ hist_empty = FALSE
    /\ fit_method \in {1, 2}
    /\ max_iterations \in 0..MaxIter
    /\ idx = 1
    /\ fit_function = NewTF1
    /\ mean = Fin(0) /\ sigma = Fin(0) /\ chi2_ndf = Fin(0)
    /\ iteration = 0 /\ fit_min = Fin(0) /\ fit_max = Fin(0) /\ good_fit = FALSE
    /\ results = NoResults
    /\ drawn = << >>
    /\ reported = NoResults
    /\ saved = FALSE
    /\ errs = << >>
    /\ looked = {}
    /\ fit_calls = 0
    /\ first_good = 0
    /\ narrowed = FALSE
    /\ fitted_slots = {}
    /\ all_finite = TRUE
    /\ fit_log = << >>
    /\ modified = {}
    /\ hist_clone = NoClone
    /\ made = 0
    /\ oracle = {}
    /\ first_run = NoRun
    /\ windows = << >>
    /\ IdleReco
    /\ IdleDisplay
    /\ IdleRest

inputs == << variant, layer_name, layer_ok, root_file, store, hist_empty, fit_method, max_iterations >>
locals == << fit_function, mean, sigma, chi2_ndf, iteration, fit_min, fit_max, good_fit >>
ghosts == << fit_calls, first_good, narrowed, all_finite >>

\* the histogram objects and the objects made from them
objects == << modified, hist_clone, made >>

\* state of process_file of the jet-matching reconstruction
reco_vars == << entry, truthVtx, recoVtx, ncells, vtx_i,
                truthTimeFills, eventCellFills, eventTimeFills >>

\* the globals of the event display macro
display_vars == << jets_found, jets_with_histograms, jet_cells_hists, all_jets_pt,
                   hists_deleted, created, calls >>

\* the cell loop of the HS-only reconstruction
cell_vars == << cell, cell_out >>

\* the event loop of the HS-only reconstruction, but for the variables it
\* shares with the jet-matching one
event_vars == << cells, all_cell_used_counter, emb_cell_used_counter, eme_cell_used_counter,
                 cellCounts >>

\* the globals and the loops of event_display_analysis
pick_vars == << found_events, jets_stored, file_i, pick_entry, nEntries, seen, pick_calls >>

\* fit_all_layers and process_single_layer
layers_vars == << caller, can_create, can_append, results_file, fitted_layers, exit_status,
                  after_call >>

\* the fit loop of batch_plot_analysis.sh
batch_vars == << task_i, MEANS, SIGMAS, DESCRIPTIONS, MEAN, SIGMA, choice, manual_mean,
                 manual_sigma >>

\* state of the programs modelled further down
rest == << cell_vars, event_vars, pick_vars, layers_vars, batch_vars >>

\* state the harness does not touch
outside == << oracle, first_run, windows, reco_vars, display_vars, rest >>

\* the state of the harness but for its position
harness == << inputs, locals, ghosts, objects, oracle, first_run, windows, idx, results, drawn, reported,
              saved, errs, looked, fitted_slots, fit_log >>

\* if (layers.find(layer) == layers.end()) { ...; return; }
CheckLayer ==
    /\ pc = "start"
    /\ IF layer_ok
       THEN pc' = "open" /\ errs' = errs
       ELSE pc' = "returned" /\ errs' = Append(errs, <<"Invalid layer name", 0>>)
    /\ UNCHANGED << outside, objects, inputs, locals, ghosts, idx, results, drawn, reported, saved, looked,
                    fitted_slots, fit_log >>

\* TFile::Open; if (!root_file || root_file->IsZombie()) { ...; return; }
OpenFile ==
    /\ pc = "open"
    /\ IF SourceUnavailable(root_file)
       THEN pc' = "returned" /\ errs' = Append(errs, <<"Could not open", 0>>)
       ELSE pc' = "lookup" /\ errs' = errs
    /\ UNCHANGED << outside, objects, inputs, locals, ghosts, idx, results, drawn, reported, saved, looked,
                    fitted_slots, fit_log >>

\* one pass of the loops up to the call of the fit loop: Get, the missing
\* branch, or Clone and the fresh locals
Lookup ==
    /\ pc = "lookup"
    /\ idx <= NumSlots(variant)
    /\ looked' = looked \cup {idx}
    /\ IF idx \notin store
       THEN /\ errs' = Append(errs, <<"not found in file", idx>>)
            /\ results' = PushMissing(results, SuffixOf(idx, variant))
            /\ idx' = NextSlot(idx)
            /\ pc' = "lookup"
            /\ UNCHANGED << locals, ghosts, hist_clone, made >>
       ELSE /\ LET f == SetupFit(Hist(idx), CurrentLocals) IN
                /\ mean' = f.mean /\ sigma' = f.sigma
                /\ fit_min' = f.fit_min /\ fit_max' = f.fit_max
                /\ chi2_ndf' = f.chi2_ndf /\ iteration' = f.iteration
                /\ good_fit' = f.good_fit /\ fit_function' = f.fit_function
            /\ fit_calls' = 0 /\ first_good' = 0 /\ narrowed' = FALSE
            /\ all_finite' = TRUE
            /\ hist_clone' = Clone(idx, made + 1)
            /\ made' = made + 1
            /\ pc' = "fit"
            /\ UNCHANGED << errs, results, idx >>
    /\ UNCHANGED << outside, modified, inputs, drawn, reported, saved, fitted_slots, fit_log >>

\* one pass of the while loop of iterativeFitMethod1/2, the fit leaving o
FitStep(o) ==
    /\ pc = "fit"
    /\ LoopCond(good_fit, iteration, max_iterations)
    /\ hist_empty => EmptyFit(o)
    /\ fit_calls' = fit_calls + 1
    /\ fitted_slots' = fitted_slots \cup {idx}
    /\ all_finite' = (all_finite /\ IsFinite(o.p1) /\ IsFinite(o.p2))
    /\ fit_function' = o
    /\ mean' = o.p1
    /\ sigma' = o.p2
    /\ chi2_ndf' = Div(o.chisquare, o.ndf)
    /\ first_good' = IF first_good = 0 /\ Less(Div(o.chisquare, o.ndf), chi2_threshold)
                     THEN fit_calls + 1 ELSE first_good
    /\ LET met == ThresholdMet(chi2_ndf', chi2_threshold)
           k == Multiplier(fit_method, iteration)
       IN /\ good_fit' = met
          /\ fit_min' = IF met THEN fit_min ELSE ShrinkMin(k, mean', sigma')
          /\ fit_max' = IF met THEN fit_max ELSE ShrinkMax(k, mean', sigma')
          /\ iteration' = NextIteration(met, iteration)
    /\ narrowed' = (~good_fit' /\ Less(Sub(fit_max', fit_min'), Sub(fit_max, fit_min)))
    /\ modified' = IF FitObject(idx, hist_clone).id = 0
                   THEN modified \cup {FitObject(idx, hist_clone).of}
                   ELSE modified
    /\ UNCHANGED << reco_vars, display_vars, rest, hist_clone, made, inputs, pc, idx, results, drawn, reported, saved, errs, looked, fit_log >>

FitIter(o) == FitStep(o) /\ UNCHANGED outside

\* return good_fit
FitReturn ==
    /\ pc = "fit"
    /\ ~LoopCond(good_fit, iteration, max_iterations)
    /\ pc' = "fitted"
    /\ UNCHANGED << outside, objects, inputs, locals, ghosts, idx, results, drawn, reported, saved, errs, looked,
                    fitted_slots, fit_log >>

\* the rest of the pass: push the result, draw the fit, the window lines and the labels
Record ==
    /\ pc = "fitted"
    /\ results' = PushResult(results, SuffixOf(idx, variant),
                             [mu |-> mean, sigma |-> sigma, chi2 |-> chi2_ndf,
                              iterations |-> IterationsUsed(iteration)])
    /\ drawn' = Append(drawn, [slot |-> idx, iterations |-> IterationsUsed(iteration),
                               lo |-> fit_min, hi |-> fit_max])
    /\ fit_log' = Append(fit_log, [slot |-> idx, calls |-> fit_calls,
                                   first_good |-> first_good, good_fit |-> good_fit,
                                   out |-> fit_function, clone |-> hist_clone])
    \* the locals of the pass go out of scope
    /\ mean' = Fin(0) /\ sigma' = Fin(0) /\ chi2_ndf' = Fin(0)
    /\ iteration' = 0 /\ fit_min' = Fin(0) /\ fit_max' = Fin(0) /\ good_fit' = FALSE
    /\ fit_function' = NewTF1
    /\ fit_calls' = 0 /\ first_good' = 0 /\ narrowed' = FALSE
    /\ all_finite' = TRUE
    /\ hist_clone' = NoClone
    /\ idx' = NextSlot(idx)
    /\ pc' = "lookup"
    /\ UNCHANGED << outside, modified, made, inputs, reported, saved, errs, looked, fitted_slots >>

\* after the loops: SaveAs, print the vectors, Close, delete; the track macro
\* clears its vectors before it returns
Save ==
    /\ pc = "lookup"
    /\ idx > NumSlots(variant)
    /\ saved' = TRUE
    /\ reported' = results
    /\ results' = IF variant = "track" THEN NoResults ELSE results
    /\ pc' = "done"
    /\ UNCHANGED << outside, objects, inputs, locals, ghosts, idx, drawn, errs, looked, fitted_slots, fit_log >>

Next ==
    \/ CheckLayer
    \/ OpenFile
    \/ Lookup
    \/ \E o \in FitOutcomes : FitIter(o)
    \/ FitReturn
    \/ Record
    \/ Save

Spec == Init /\ [][Next]_vars

\* the harness is sequential code: whatever step is enabled is taken
FairSpec == Spec /\ WF_vars(Next)

----------------------------------------------------------------------------
(* One call of the fit loop with the default cap, any fit outcome *)

InitFit ==
    /\ pc = "fit"
    /\ variant = "track"
    /\ layer_name = "EMB3"
    /\ layer_ok = LayerValid(layer_name)
    /\ root_file = "ok"
    /\ store = {1}
    /\ hist_empty \in BOOLEAN
    /\ fit_method \in {1, 2}
    /\ max_iterations \in {-1, 0, DefaultMaxIterations}
    /\ idx = 1
    /\ LET f == SetupFit(Hist(1), NoLocals) IN
        /\ mean = f.mean /\ sigma = f.sigma
        /\ fit_min = f.fit_min /\ fit_max = f.fit_max
        /\ chi2_ndf = f.chi2_ndf /\ iteration = f.iteration
        /\ good_fit = f.good_fit /\ fit_function = f.fit_function
    /\ results = NoResults
    /\ drawn = << >>
    /\ reported = NoResults
    /\ saved = FALSE
    /\ errs = << >>
    /\ looked = {1}
    /\ fit_calls = 0
    /\ first_good = 0
    /\ narrowed = FALSE
    /\ fitted_slots = {}
    /\ all_finite = TRUE
    /\ fit_log = << >>
    /\ modified = {}
    /\ hist_clone = Clone(1, 1)
    /\ made = 1
    /\ oracle = {}
    /\ first_run = NoRun
    /\ windows = << >>
    /\ IdleReco
    /\ IdleDisplay
    /\ IdleRest

NextFit ==
    \/ \E o \in AllFitOutcomes : FitIter(o)
    \/ FitReturn

SpecFit == InitFit /\ [][NextFit]_vars

\* the loop is sequential code: the next pass or the return is always taken
FairSpecFit == SpecFit /\ WF_vars(NextFit)

----------------------------------------------------------------------------
(* The fit loop run twice on the same histogram, with a fit that is a      *)
(* function of the histogram, the window and the fit function's parameters *)

\* what the fit depends on besides the histogram
FitInput == [lo |-> fit_min, hi |-> fit_max, par |-> fit_function]

\* the outcome of hist->Fit: the one already given for this input, any outcome
\* for an input not met before
FitResult(orc, key, o) ==
    IF \E e \in orc : e.key = key THEN (CHOOSE e \in orc : e.key = key).out ELSE o

\* what a run leaves to its caller
RunResult ==
    [done |-> TRUE, windows |-> windows, mean |-> mean, sigma |-> sigma,
     chi2_ndf |-> chi2_ndf, iteration |-> iteration, good_fit |-> good_fit]

InitTwin ==
    /\ pc = "fit"
    /\ variant = "track"
    /\ layer_name = "EMB3"
    /\ layer_ok = LayerValid(layer_name)
    /\ root_file = "ok"
    /\ store = {1}
    /\ hist_empty = FALSE
    /\ fit_method \in {1, 2}
    /\ max_iterations \in 0..(MaxIter + 1)
    /\ idx = 1
    /\ LET f == SetupFit(Hist(1), NoLocals) IN
        /\ mean = f.mean /\ sigma = f.sigma
        /\ fit_min = f.fit_min /\ fit_max = f.fit_max
        /\ chi2_ndf = f.chi2_ndf /\ iteration = f.iteration
        /\ good_fit = f.good_fit /\ fit_function = f.fit_function
    /\ results = NoResults
    /\ drawn = << >>
    /\ reported = NoResults
    /\ saved = FALSE
    /\ errs = << >>
    /\ looked = {1}
    /\ fit_calls = 0
    /\ first_good = 0
    /\ narrowed = FALSE
    /\ fitted_slots = {}
    /\ all_finite = TRUE
    /\ fit_log = << >>
    /\ modified = {}
    /\ hist_clone = Clone(1, 1)
    /\ made = 1
    /\ oracle = {}
    /\ first_run = NoRun
    /\ windows = << >>
    /\ IdleReco
    /\ IdleDisplay
    /\ IdleRest

\* one pass of the while loop, the fit called with the current window
TwinFitIter(o) ==
    LET r == FitResult(oracle, FitInput, o) IN
    /\ FitStep(r)
    /\ oracle' = oracle \cup {[key |-> FitInput, out |-> r]}
    /\ windows' = Append(windows, << fit_min, fit_max >>)
    /\ UNCHANGED first_run

\* the first run returns and the harness sets up the second one: a new clone,
\* fresh locals, a new fit function
TwinRerun ==
    /\ pc = "fit"
    /\ ~LoopCond(good_fit, iteration, max_iterations)
    /\ ~first_run.done
    /\ first_run' = RunResult
    /\ windows' = << >>
    /\ LET f == SetupFit(Hist(idx), CurrentLocals) IN
        /\ mean' = f.mean /\ sigma' = f.sigma
        /\ fit_min' = f.fit_min /\ fit_max' = f.fit_max
        /\ chi2_ndf' = f.chi2_ndf /\ iteration' = f.iteration
        /\ good_fit' = f.good_fit /\ fit_function' = f.fit_function
    /\ fit_calls' = 0 /\ first_good' = 0 /\ narrowed' = FALSE
    /\ all_finite' = TRUE
    /\ hist_clone' = Clone(idx, made + 1)
    /\ made' = made + 1
    /\ UNCHANGED << reco_vars, display_vars, rest, modified, inputs, pc, idx, results, drawn, reported,
                    saved, errs, looked, fitted_slots, fit_log, oracle >>

\* the second run returns
TwinReturn ==
    /\ first_run.done
    /\ FitReturn

NextTwin ==
    \/ \E o \in AllFitOutcomes : TwinFitIter(o)
    \/ TwinRerun
    \/ TwinReturn

SpecTwin == InitTwin /\ [][NextTwin]_vars

----------------------------------------------------------------------------
(* plot_tracks: the earlier macro, with the fit loop written inline (the   *)
(* 3-step schedule) and the vectors mu_HS, sigma_HS, ... local to the call *)

InitTracks ==
    /\ pc = "start"
    /\ variant = "plot_tracks"
    /\ layer_name \in {"EMB3", "EMB4"}
    /\ layer_ok = LayerValid(layer_name)
    /\ root_file \in {"ok", "zombie"}
    /\ store \in SUBSET (1..NumSlots(variant))
    /\ hist_empty = FALSE
    /\ fit_method = 1
    /\ max_iterations \in 0..MaxIter
    /\ idx = 1
    /\ fit_function = NewTF1
    /\ mean = Fin(0) /\ sigma = Fin(0) /\ chi2_ndf = Fin(0)
    /\ iteration = 0 /\ fit_min = Fin(0) /\ fit_max = Fin(0) /\ good_fit = FALSE
    /\ results = NoResults
    /\ drawn = << >>
    /\ reported = NoResults
    /\ saved = FALSE
    /\ errs = << >>
    /\ looked = {}
    /\ fit_calls = 0
    /\ first_good = 0
    /\ narrowed = FALSE
    /\ fitted_slots = {}
    /\ all_finite = TRUE
    /\ fit_log = << >>
    /\ modified = {}
    /\ hist_clone = NoClone
    /\ made = 0
    /\ oracle = {}
    /\ first_run = NoRun
    /\ windows = << >>
    /\ IdleReco
    /\ IdleDisplay
    /\ IdleRest

\* one pass of the loops up to the while loop: Get; if (!hist) { ...; continue; }
\* with nothing pushed; else Clone and the fresh locals
TracksLookup ==
    /\ pc = "lookup"
    /\ idx <= NumSlots(variant)
    /\ looked' = looked \cup {idx}
    /\ IF idx \notin store
       THEN /\ errs' = Append(errs, <<"not found in file", idx>>)
            /\ idx' = NextSlot(idx)
            /\ pc' = "lookup"
            /\ UNCHANGED << locals, ghosts, hist_clone, made >>
       ELSE /\ LET f == SetupFit(Hist(idx), CurrentLocals) IN
                /\ mean' = f.mean /\ sigma' = f.sigma
                /\ fit_min' = f.fit_min /\ fit_max' = f.fit_max
                /\ chi2_ndf' = f.chi2_ndf /\ iteration' = f.iteration
                /\ good_fit' = f.good_fit /\ fit_function' = f.fit_function
            /\ fit_calls' = 0 /\ first_good' = 0 /\ narrowed' = FALSE
            /\ all_finite' = TRUE
            /\ hist_clone' = Clone(idx, made + 1)
            /\ made' = made + 1
            /\ pc' = "fit"
            /\ UNCHANGED << errs, idx >>
    /\ UNCHANGED << outside, modified, inputs, results, drawn, reported, saved, fitted_slots, fit_log >>

\* the rest of the pass: mu_X.push_back(mean), sigma_X.push_back(sigma) for
\* the suffix X, then the window lines and the labels
TracksRecord ==
    /\ pc = "fitted"
    /\ results' = PushResult(results, SuffixOf(idx, variant), [mu |-> mean, sigma |-> sigma])
    /\ drawn' = Append(drawn, [slot |-> idx, iterations |-> IterationsUsed(iteration),
                               lo |-> fit_min, hi |-> fit_max])
    /\ fit_log' = Append(fit_log, [slot |-> idx, calls |-> fit_calls,
                                   first_good |-> first_good, good_fit |-> good_fit,
                                   out |-> fit_function, clone |-> hist_clone])
    \* the locals of the pass go out of scope
    /\ mean' = Fin(0) /\ sigma' = Fin(0) /\ chi2_ndf' = Fin(0)
    /\ iteration' = 0 /\ fit_min' = Fin(0) /\ fit_max' = Fin(0) /\ good_fit' = FALSE
    /\ fit_function' = NewTF1
    /\ fit_calls' = 0 /\ first_good' = 0 /\ narrowed' = FALSE
    /\ all_finite' = TRUE
    /\ hist_clone' = NoClone
    /\ idx' = NextSlot(idx)
    /\ pc' = "lookup"
    /\ UNCHANGED << outside, modified, made, inputs, reported, saved, errs, looked, fitted_slots >>

\* after the loops: SaveAs, Close, print the six vectors
TracksSave ==
    /\ pc = "lookup"
    /\ idx > NumSlots(variant)
    /\ saved' = TRUE
    /\ reported' = results
    /\ pc' = "done"
    /\ UNCHANGED << outside, objects, inputs, locals, ghosts, idx, results, drawn, errs, looked,
                    fitted_slots, fit_log >>

NextTracks ==
    \/ CheckLayer
    \/ OpenFile
    \/ TracksLookup
    \/ \E o \in FitOutcomes : FitIter(o)
    \/ FitReturn
    \/ TracksRecord
    \/ TracksSave

SpecTracks == InitTracks /\ [][NextTracks]_vars

----------------------------------------------------------------------------
(* process_file of processmu200_jetmatching_reco: the loop over the truth  *)
(* vertices of each event.  Vertices lie on the x axis, so the distance    *)
(* sqrt(dx^2 + dy^2 + dz^2) is |dx|.                                       *)

\* longest truthVtx / recoVtx vector of an event
MaxVtx == 2
\* tree->GetEntries()
NumEntries == 2

SeqsUpTo(S, n) == UNION {[1..k -> S] : k \in 0..n}

\* the vectors an event can hold
TruthVectors == SeqsUpTo([hs : BOOLEAN, pos : {0, 2}], MaxVtx)
RecoVectors == SeqsUpTo([hs : BOOLEAN, pos : {0, 3}], MaxVtx)

\* the fit macros are not running
IdleHarness ==
    /\ variant = "track"
    /\ layer_name = "EMB3"
    /\ layer_ok = LayerValid(layer_name)
    /\ root_file = "ok"
    /\ store = {}
    /\ hist_empty = FALSE
    /\ fit_method = 2
    /\ max_iterations = DefaultMaxIterations
    /\ idx = 1
    /\ fit_function = NewTF1
    /\ mean = Fin(0) /\ sigma = Fin(0) /\ chi2_ndf = Fin(0)
    /\ iteration = 0 /\ fit_min = Fin(0) /\ fit_max = Fin(0) /\ good_fit = FALSE
    /\ results = NoResults
    /\ drawn = << >>
    /\ reported = NoResults
    /\ saved = FALSE
    /\ errs = << >>
    /\ looked = {}
    /\ fit_calls = 0
    /\ first_good = 0
    /\ narrowed = FALSE
    /\ fitted_slots = {}
    /\ all_finite = TRUE
    /\ fit_log = << >>
    /\ modified = {}
    /\ hist_clone = NoClone
    /\ made = 0
    /\ oracle = {}
    /\ first_run = NoRun
    /\ windows = << >>

\* the inner loop over recoVtxIsHS: index of the first reco vertex flagged
\* hard-scatter, 0 when there is none (foundRecoVtx stays false)
RECURSIVE FirstHSRecoFrom(_, _)
FirstHSRecoFrom(reco, r) ==
    IF r > Len(reco) THEN 0
    ELSE IF reco[r].hs THEN r
    ELSE FirstHSRecoFrom(reco, r + 1)

FirstHSReco(reco) == FirstHSRecoFrom(reco, 1)

\* reco_dz_distance
Distance(a, b) == IF a >= b THEN a - b ELSE b - a

\* the break left out: the loop goes on to the next truth vertex
AfterValidNoBreak(i, n) == i + 1

\* break: the loop over the truth vertices is left, as if i were past the end
AfterValid(i, n) == n + 1

InitReco ==
    /\ pc = "entry"
    /\ IdleHarness
    /\ IdleReco
    /\ IdleDisplay
    /\ IdleRest

\* tree->GetEntry(entry) and the jet selection; the vectors of the event
GetEntry ==
    /\ pc = "entry"
    /\ entry < NumEntries
    /\ truthVtx' \in TruthVectors
    /\ recoVtx' \in RecoVectors
    /\ ncells' \in 0..1
    /\ pc' = "vertex"
    /\ UNCHANGED << harness, rest, display_vars, entry, vtx_i, truthTimeFills, eventCellFills, eventTimeFills >>

\* one pass of the loop over the truth vertices
VertexPass ==
    /\ pc = "vertex"
    /\ vtx_i <= Len(truthVtx)
    /\ LET r == FirstHSReco(recoVtx) IN
       IF ~truthVtx[vtx_i].hs
       THEN /\ vtx_i' = vtx_i + 1
            /\ UNCHANGED << truthTimeFills, eventCellFills, eventTimeFills >>
       ELSE /\ truthTimeFills' = Append(truthTimeFills, vtx_i)
            /\ IF r = 0 \/ Distance(truthVtx[vtx_i].pos, recoVtx[r].pos) > 2
               THEN /\ vtx_i' = vtx_i + 1
                    /\ UNCHANGED << eventCellFills, eventTimeFills >>
               ELSE /\ eventCellFills' = Append(eventCellFills, vtx_i)
                    /\ eventTimeFills' = IF ncells > 0
                                         THEN Append(eventTimeFills, vtx_i)
                                         ELSE eventTimeFills
                    /\ vtx_i' = AfterValid(vtx_i, Len(truthVtx))
    /\ UNCHANGED << harness, rest, display_vars, pc, entry, truthVtx, recoVtx, ncells >>

\* the loop over the truth vertices is over: ++entry; the locals of the pass
\* go out of scope and the vectors are not read again before the next GetEntry
NextEntry ==
    /\ pc = "vertex"
    /\ vtx_i > Len(truthVtx)
    /\ entry' = entry + 1
    /\ truthVtx' = << >> /\ recoVtx' = << >>
    /\ ncells' = 0
    /\ vtx_i' = 1
    /\ truthTimeFills' = << >> /\ eventCellFills' = << >> /\ eventTimeFills' = << >>
    /\ pc' = "entry"
    /\ UNCHANGED << harness, rest, display_vars >>

\* file->Close()
CloseFile ==
    /\ pc = "entry"
    /\ entry >= NumEntries
    /\ pc' = "closed"
    /\ UNCHANGED << harness, rest, display_vars, reco_vars >>

NextReco ==
    \/ GetEntry
    \/ VertexPass
    \/ NextEntry
    \/ CloseFile

SpecReco == InitReco /\ [][NextReco]_vars

----------------------------------------------------------------------------
(* The event display macro: event_display_analysis_with_cuts called        *)
(* repeatedly in one ROOT session.  The global vectors are kept by their   *)
(* sizes.                                                                  *)

\* const int max_jets = 2000
max_jets == 2000
\* const int max_jet_histograms = 20
max_jet_histograms == 20
\* calls made in one session
MaxCalls == 2

InitDisplay ==
    /\ pc = "idle"
    /\ IdleHarness
    /\ IdleReco
    /\ IdleDisplay
    /\ IdleRest

\* event_display_analysis_with_cuts up to the loop over the files: the reset
\* of the globals
StartCall ==
    /\ pc = "idle"
    /\ calls < MaxCalls
    /\ calls' = calls + 1
    /\ jets_found' = 0
    /\ jet_cells_hists' = 0
    /\ all_jets_pt' = 0
    /\ hists_deleted' = FALSE
    /\ created' = 0
    /\ pc' = "files"
    /\ UNCHANGED << harness, rest, reco_vars, jets_with_histograms >>

\* process_file: a jet passes all cuts
FoundJet ==
    /\ pc = "files"
    /\ jets_found < max_jets
    /\ all_jets_pt' = all_jets_pt + 1
    /\ IF jets_with_histograms < max_jet_histograms
       THEN /\ created' = created + 1
            /\ jet_cells_hists' = jet_cells_hists + 1
            /\ jets_with_histograms' = jets_with_histograms + 1
       ELSE UNCHANGED << created, jet_cells_hists, jets_with_histograms >>
    /\ jets_found' = jets_found + 1
    /\ UNCHANGED << harness, rest, reco_vars, pc, hists_deleted, calls >>

\* the loop over the files ends (no file left, or max_jets reached): the output
\* is written and the histograms are deleted, unless the output file could not
\* be created
EndCall ==
    /\ pc = "files"
    /\ \E output_ok \in BOOLEAN : hists_deleted' = output_ok
    /\ pc' = "idle"
    /\ UNCHANGED << harness, rest, reco_vars, jets_found, jets_with_histograms, jet_cells_hists,
                    all_jets_pt, created, calls >>

NextDisplay ==
    \/ StartCall
    \/ FoundJet
    \/ EndCall

SpecDisplay == InitDisplay /\ [][NextDisplay]_vars

----------------------------------------------------------------------------
(* process_file of HSonly_PUcells_removed_reco: one pass of the loop over  *)
(* the cells.  Energies and the significance are in tenths, DeltaR in      *)
(* hundredths.                                                             *)

\* default of the energyThreshold argument: 1.0
energyThreshold == 10
\* longest Track_pt vector of an event
MaxTracks == 2
\* largest cell energy the bin lookup is tabulated for, in tenths
MaxEnergy == 120

\* the first range closed below: a cell at exactly 1.0 gets bin 0
EnergyBinClosedBelow(e) ==
    IF e >= 10 /\ e <= 15 THEN 0
    ELSE IF e > 15 /\ e <= 20 THEN 1
    ELSE IF e > 20 /\ e <= 30 THEN 2
    ELSE IF e > 30 /\ e <= 40 THEN 3
    ELSE IF e > 40 /\ e <= 50 THEN 4
    ELSE IF e > 50 /\ e <= 100 THEN 5
    ELSE IF e > 100 THEN 6
    ELSE -1

\* int bin = -1; if (energy > 1 && energy <= 1.5) bin = 0; else if ...
EnergyBin(e) ==
    IF e > 10 /\ e <= 15 THEN 0
    ELSE IF e > 15 /\ e <= 20 THEN 1
    ELSE IF e > 20 /\ e <= 30 THEN 2
    ELSE IF e > 30 /\ e <= 40 THEN 3
    ELSE IF e > 40 /\ e <= 50 THEN 4
    ELSE IF e > 50 /\ e <= 100 THEN 5
    ELSE IF e > 100 THEN 6
    ELSE -1

\* the two continue statements at the head of the pass are not taken
PassesCuts(c) == ~(c.e < energyThreshold) /\ ~(c.significance < 40)

\* if (bin != -1 && (is_barrel || is_endcap) && (layer >= 1 && layer <= 3))
InRegion(c) ==
    /\ EnergyBin(c.e) # -1
    /\ (c.is_barrel \/ c.is_endcap)
    /\ (c.layer >= 1 /\ c.layer <= 3)

\* the loop over the tracks from index k on, m holding the three locals
RECURSIVE TrackLoop(_, _, _)
TrackLoop(tracks, k, m) ==
    IF k > Len(tracks) THEN m
    ELSE LET t == tracks[k] IN
         IF t.quality = 0 THEN TrackLoop(tracks, k + 1, m)
         ELSE IF t.dr > 5 THEN TrackLoop(tracks, k + 1, m)
         ELSE IF t.pt > m.pt
              THEN IF t.origin = 0
                   THEN [pt |-> t.pt, hs |-> FALSE, non_hs |-> TRUE]
                   ELSE TrackLoop(tracks, k + 1, [pt |-> t.pt, hs |-> TRUE, non_hs |-> FALSE])
              ELSE TrackLoop(tracks, k + 1, m)

\* the loop starts from matched_track_pt = -999, matched_track_HS = false,
\* found_non_HS_match = false;
\* if (found_non_HS_match) continue; if (!matched_track_HS) continue;
TrackMatched(tracks) ==
    LET m == TrackLoop(tracks, 1, [pt |-> -999, hs |-> FALSE, non_hs |-> FALSE]) IN ~m.non_hs /\ m.hs

\* what one pass of the cell loop does with cell c: its bin, whether it got
\* past the cuts on energy, significance, bin, calorimeter and layer, whether
\* it was added to weighted_sum, weight_sum and all_cell_used_counter, and to
\* the barrel or the endcap sums and counter
CellSelection(c) ==
    LET passed == PassesCuts(c) /\ InRegion(c)
        used == passed /\ TrackMatched(c.tracks)
    IN [bin |-> IF PassesCuts(c) THEN EnergyBin(c.e) ELSE -1,
        passed |-> passed,
        used |-> used,
        emb |-> used /\ c.is_barrel,
        eme |-> used /\ ~c.is_barrel /\ c.is_endcap]

Tracks == [quality : {0, 1}, dr : {5, 6}, pt : {1, 2}, origin : {0, 1}]

TrackVectors == SeqsUpTo(Tracks, MaxTracks)

CellInputs ==
    [e : {10, 11, 15, 16, 100, 101}, significance : {39, 40},
     is_barrel : BOOLEAN, is_endcap : BOOLEAN, layer : {0, 2, 4},
     tracks : TrackVectors]

InitCell ==
    /\ pc = "cell"
    /\ IdleHarness
    /\ IdleReco
    /\ IdleDisplay
    /\ cell \in CellInputs
    /\ cell_out = NoSelection
    /\ IdleEvent
    /\ IdlePick
    /\ IdleLayers
    /\ IdleBatch

\* one pass of the loop over the cells
SelectCell ==
    /\ pc = "cell"
    /\ cell_out' = CellSelection(cell)
    /\ pc' = "selected"
    /\ UNCHANGED << harness, reco_vars, display_vars, event_vars, pick_vars, layers_vars, batch_vars, cell >>

NextCell == SelectCell

SpecCell == InitCell /\ [][NextCell]_vars

----------------------------------------------------------------------------
(* process_file of HSonly_PUcells_removed_reco: the loops over the events  *)
(* and over the truth vertices of each event.  A pass of the vertex loop   *)
(* runs the whole cell loop.                                               *)

\* longest cell vector of an event
MaxCells == 2

HSTrack == [quality |-> 1, dr |-> 5, pt |-> 2, origin |-> 1]

\* the cells an event is made of: a barrel and an endcap cell with a
\* hard-scatter track on them, a cell with a pile-up track, a cell below the
\* energy threshold
CellSamples ==
    { [e |-> 20, significance |-> 40, is_barrel |-> TRUE, is_endcap |-> FALSE,
       layer |-> 2, tracks |-> << HSTrack >>],
      [e |-> 20, significance |-> 40, is_barrel |-> FALSE, is_endcap |-> TRUE,
       layer |-> 1, tracks |-> << HSTrack >>],
      [e |-> 20, significance |-> 40, is_barrel |-> TRUE, is_endcap |-> FALSE,
       layer |-> 2, tracks |-> << [HSTrack EXCEPT !.origin = 0] >>],
      [e |-> 5, significance |-> 40, is_barrel |-> TRUE, is_endcap |-> FALSE,
       layer |-> 2, tracks |-> << HSTrack >>] }

CellVectors == SeqsUpTo(CellSamples, MaxCells)

\* the vertex vectors of an event; the positions play no part here
HSVertexVectors == SeqsUpTo([hs : BOOLEAN, pos : {0}], MaxVtx)

\* number of passes of the cell loop, over the cells from index j on, that
\* reach the statement picked out by field f of CellSelection
RECURSIVE CountCells(_, _, _)
CountCells(cs, j, f) ==
    IF j > Len(cs) THEN 0
    ELSE (IF CellSelection(cs[j])[f] THEN 1 ELSE 0) + CountCells(cs, j + 1, f)

\* the counters are declared and set to 0 once per event, before the loop over
\* the truth vertices, and are not touched at the head of a pass
CounterAtVertex(counter) == counter

InitHSonly ==
    /\ pc = "hs_entry"
    /\ IdleHarness
    /\ IdleReco
    /\ IdleDisplay
    /\ IdleRest

\* tree->GetEntry(entry); int all_cell_used_counter = 0; ...
HSGetEntry ==
    /\ pc = "hs_entry"
    /\ entry < NumEntries
    /\ truthVtx' \in HSVertexVectors
    /\ recoVtx' \in HSVertexVectors
    /\ cells' \in CellVectors
    /\ all_cell_used_counter' = 0
    /\ emb_cell_used_counter' = 0
    /\ eme_cell_used_counter' = 0
    /\ pc' = "hs_vertex"
    /\ UNCHANGED << harness, display_vars, cell_vars, pick_vars, layers_vars, batch_vars, entry, ncells, vtx_i, truthTimeFills,
                    eventCellFills, eventTimeFills, cellCounts >>

\* one pass of the loop over the truth vertices
HSVertexPass ==
    /\ pc = "hs_vertex"
    /\ vtx_i <= Len(truthVtx)
    /\ vtx_i' = vtx_i + 1
    /\ IF ~truthVtx[vtx_i].hs
       THEN UNCHANGED << truthTimeFills, eventCellFills, eventTimeFills, event_vars >>
       ELSE /\ truthTimeFills' = Append(truthTimeFills, vtx_i)
            /\ IF FirstHSReco(recoVtx) = 0
               THEN UNCHANGED << eventCellFills, eventTimeFills, event_vars >>
               ELSE LET used == CountCells(cells, 1, "used")
                        emb == CountCells(cells, 1, "emb")
                        eme == CountCells(cells, 1, "eme")
                    IN /\ all_cell_used_counter' = CounterAtVertex(all_cell_used_counter) + used
                       /\ emb_cell_used_counter' = CounterAtVertex(emb_cell_used_counter) + emb
                       /\ eme_cell_used_counter' = CounterAtVertex(eme_cell_used_counter) + eme
                       /\ eventCellFills' = Append(eventCellFills, vtx_i)
                       /\ cellCounts' = Append(cellCounts,
                              [vtx |-> vtx_i,
                               all |-> all_cell_used_counter',
                               emb |-> emb_cell_used_counter',
                               eme |-> eme_cell_used_counter',
                               used |-> used, used_emb |-> emb, used_eme |-> eme])
                       \* if (weight_sum > 0): every weight is 1 / sigma^2 > 0
                       /\ eventTimeFills' = IF used > 0
                                            THEN Append(eventTimeFills, vtx_i)
                                            ELSE eventTimeFills
                       /\ UNCHANGED cells
    /\ UNCHANGED << harness, display_vars, cell_vars, pick_vars, layers_vars, batch_vars, pc, entry, truthVtx, recoVtx, ncells >>

\* the loop over the truth vertices is over: ++entry; the locals of the pass
\* go out of scope and the vectors are not read again before the next GetEntry
HSNextEntry ==
    /\ pc = "hs_vertex"
    /\ vtx_i > Len(truthVtx)
    /\ entry' = entry + 1
    /\ truthVtx' = << >> /\ recoVtx' = << >>
    /\ cells' = << >>
    /\ all_cell_used_counter' = 0
    /\ emb_cell_used_counter' = 0
    /\ eme_cell_used_counter' = 0
    /\ cellCounts' = << >>
    /\ vtx_i' = 1
    /\ truthTimeFills' = << >> /\ eventCellFills' = << >> /\ eventTimeFills' = << >>
    /\ pc' = "hs_entry"
    /\ UNCHANGED << harness, display_vars, cell_vars, pick_vars, layers_vars, batch_vars, ncells >>

\* file->Close()
HSCloseFile ==
    /\ pc = "hs_entry"
    /\ entry >= NumEntries
    /\ pc' = "closed"
    /\ UNCHANGED << harness, rest, display_vars, reco_vars >>

NextHSonly ==
    \/ HSGetEntry
    \/ HSVertexPass
    \/ HSNextEntry
    \/ HSCloseFile

SpecHSonly == InitHSonly /\ [][NextHSonly]_vars

----------------------------------------------------------------------------
(* event_display_analysis: one event picked per target jet count, over a   *)
(* range of files, called repeatedly in one ROOT session                   *)

\* files startIndex..endIndex of a call
MaxFiles == 2
\* largest number of events in a file
PickEntries == 5

\* all_events_found()
AllEventsFound(found) == \A c \in target_jet_counts : found[c]

\* the test of found_events left out
WantedAgain(found, jet_count) == jet_count \in target_jet_counts

\* std::find(target_jet_counts...) != end() && !found_events[jet_count]
Wanted(found, jet_count) == jet_count \in target_jet_counts /\ ~found[jet_count]

\* hasValidTruthVertex: some truth vertex flagged hard-scatter has a reco
\* vertex flagged hard-scatter within distance 2
HasValidTruthVertex(truth, reco) ==
    \E i \in 1..Len(truth) :
        /\ truth[i].hs
        /\ \E r \in 1..Len(reco) :
              reco[r].hs /\ Distance(truth[i].pos, reco[r].pos) <= 2

\* the values hasValidTruthVertex takes over the vertex vectors of an event
ValidOutcomes == {HasValidTruthVertex(t, r) : t \in TruthVectors, r \in RecoVectors}

InitPick ==
    /\ pc = "pick_idle"
    /\ IdleHarness
    /\ IdleReco
    /\ IdleDisplay
    /\ IdleRest

\* initialize_tracking(); initialize_histograms(); i = startIndex
StartPick ==
    /\ pc = "pick_idle"
    /\ pick_calls < MaxCalls
    /\ pick_calls' = pick_calls + 1
    /\ found_events' = [c \in target_jet_counts |-> FALSE]
    /\ jets_stored' = [c \in target_jet_counts |-> 0]
    /\ seen' = {}
    /\ file_i' = 1
    /\ pc' = "pick_files"
    /\ UNCHANGED << harness, reco_vars, display_vars, cell_vars, event_vars, layers_vars, batch_vars, pick_entry, nEntries >>

\* one pass of the loop over the files, up to the loop over the events: the
\* file is missing, cannot be opened or has no tree, or its tree is read
PickFile ==
    /\ pc = "pick_files"
    /\ file_i <= MaxFiles /\ ~AllEventsFound(found_events)
    /\ \E readable \in BOOLEAN :
          IF readable
          THEN /\ nEntries' \in 0..PickEntries
               /\ pick_entry' = 0
               /\ pc' = "pick_entries"
               /\ UNCHANGED file_i
          ELSE /\ file_i' = file_i + 1
               /\ UNCHANGED << pc, nEntries, pick_entry >>
    /\ UNCHANGED << harness, reco_vars, display_vars, cell_vars, event_vars, layers_vars, batch_vars,
                    found_events, jets_stored, seen, pick_calls >>

\* one pass of the loop over the events: jet_count jets are selected
PickEntry ==
    /\ pc = "pick_entries"
    /\ pick_entry < nEntries /\ ~AllEventsFound(found_events)
    /\ \E jet_count \in 0..(NumTargets + 1), valid \in ValidOutcomes :
          /\ seen' = IF valid /\ jet_count \in target_jet_counts
                     THEN seen \cup {jet_count} ELSE seen
          /\ IF Wanted(found_events, jet_count) /\ valid
             THEN /\ found_events' = [found_events EXCEPT ![jet_count] = TRUE]
                  /\ jets_stored' = [jets_stored EXCEPT ![jet_count] = @ + jet_count]
             ELSE UNCHANGED << found_events, jets_stored >>
    /\ pick_entry' = pick_entry + 1
    /\ UNCHANGED << harness, reco_vars, display_vars, cell_vars, event_vars, layers_vars, batch_vars,
                    pc, file_i, nEntries, pick_calls >>

\* the loop over the events is left: file->Close(); ++i
PickCloseFile ==
    /\ pc = "pick_entries"
    /\ ~(pick_entry < nEntries /\ ~AllEventsFound(found_events))
    /\ file_i' = file_i + 1
    /\ pick_entry' = 0
    /\ nEntries' = 0
    /\ pc' = "pick_files"
    /\ UNCHANGED << harness, reco_vars, display_vars, cell_vars, event_vars, layers_vars, batch_vars,
                    found_events, jets_stored, seen, pick_calls >>

\* the loop over the files is left: the output file is written and the
\* summary printed, or the call returns on an output file that cannot be made
PickWrite ==
    /\ pc = "pick_files"
    /\ ~(file_i <= MaxFiles /\ ~AllEventsFound(found_events))
    /\ file_i' = 1
    /\ pc' = "pick_idle"
    /\ UNCHANGED << harness, reco_vars, display_vars, cell_vars, event_vars, layers_vars, batch_vars,
                    found_events, jets_stored, pick_entry, nEntries, seen, pick_calls >>

NextPick ==
    \/ StartPick
    \/ PickFile
    \/ PickEntry
    \/ PickCloseFile
    \/ PickWrite

SpecPick == InitPick /\ [][NextPick]_vars

----------------------------------------------------------------------------
(* fit_all_layers and process_single_layer.  The call of                   *)
(* plot_inclusive_iterations is one step: what it writes to the results    *)
(* file and whether it got as far as its fits.                             *)

\* the default of plot_inclusive_iterations passed instead
LayerArgDefault == "EMB3"

\* process_single_layer(file_path, "EMB1", 1.0, 5000, 1, ...)
LayerArg == "EMB1"

\* what fit_all_layers and process_single_layer leave alone: the state of the
\* harness they do not pass to it, and the state of the other programs
beside_layers == << locals, ghosts, objects, oracle, first_run, windows, idx, results, drawn, reported, saved, looked,
                    fitted_slots, fit_log, variant, store, hist_empty,
                   reco_vars, display_vars, cell_vars, event_vars, pick_vars, batch_vars >>

InitLayers ==
    /\ caller \in {"fit_all_layers", "process_single_layer"}
    /\ pc = caller
    /\ can_create \in BOOLEAN
    /\ can_append \in BOOLEAN
    /\ results_file = << >>
    /\ fitted_layers = << >>
    /\ exit_status = -1
    /\ after_call = FALSE
    /\ variant = "track"
    /\ layer_name \in LayerInputs
    /\ layer_ok = LayerValid(layer_name)
    /\ root_file \in {"ok", "null", "zombie"}
    /\ store = {}
    /\ hist_empty = FALSE
    /\ fit_method \in {1, 2}
    /\ max_iterations = DefaultMaxIterations
    /\ idx = 1
    /\ fit_function = NewTF1
    /\ mean = Fin(0) /\ sigma = Fin(0) /\ chi2_ndf = Fin(0)
    /\ iteration = 0 /\ fit_min = Fin(0) /\ fit_max = Fin(0) /\ good_fit = FALSE
    /\ results = NoResults
    /\ drawn = << >>
    /\ reported = NoResults
    /\ saved = FALSE
    /\ errs = << >>
    /\ looked = {}
    /\ fit_calls = 0
    /\ first_good = 0
    /\ narrowed = FALSE
    /\ fitted_slots = {}
    /\ all_finite = TRUE
    /\ fit_log = << >>
    /\ modified = {}
    /\ hist_clone = NoClone
    /\ made = 0
    /\ oracle = {}
    /\ first_run = NoRun
    /\ windows = << >>
    /\ IdleReco
    /\ IdleDisplay
    /\ IdleCell
    /\ IdleEvent
    /\ IdlePick
    /\ IdleBatch

\* fit_all_layers up to the call of process_single_layer: the results file is
\* created and the header written, or the function returns
FitAllLayers ==
    /\ pc = "fit_all_layers"
    /\ IF can_create
       THEN /\ results_file' = << "Fit started at", "Input file" >>
            /\ layer_name' = LayerArg
            /\ layer_ok' = LayerValid(LayerArg)
            /\ fit_method' = 1
            /\ max_iterations' = DefaultMaxIterations
            /\ pc' = "process_single_layer"
            /\ UNCHANGED errs
       ELSE /\ errs' = Append(errs, <<"Could not create output file", 0>>)
            /\ pc' = "returned"
            /\ UNCHANGED << results_file, layer_name, layer_ok, fit_method, max_iterations >>
    /\ UNCHANGED << beside_layers, root_file, caller, can_create, can_append,
                    fitted_layers, exit_status, after_call >>

\* process_single_layer up to the call of plot_inclusive_iterations: the
\* results file is opened for appending, or the function returns to its caller
OpenResults ==
    /\ pc = "process_single_layer"
    /\ IF can_append
       THEN /\ results_file' = Append(results_file, "Processing")
            /\ pc' = "harness"
            /\ UNCHANGED errs
       ELSE /\ errs' = Append(errs, <<"Could not open output file", 0>>)
            /\ pc' = IF caller = "fit_all_layers" THEN "after_call" ELSE "returned"
            /\ UNCHANGED results_file
    /\ UNCHANGED << beside_layers, inputs, caller, can_create, can_append,
                    fitted_layers, exit_status, after_call >>

\* plot_inclusive_iterations(..., &output_file): it returns at once on a layer
\* name that is not in the table or a file that cannot be opened, else it runs
\* the fits of the layer and writes the results
RunHarness ==
    /\ pc = "harness"
    /\ IF ~LayerValid(layer_name)
       THEN /\ errs' = Append(errs, <<"Invalid layer name", 0>>)
            /\ UNCHANGED << results_file, fitted_layers >>
       ELSE IF SourceUnavailable(root_file)
       THEN /\ errs' = Append(errs, <<"Could not open", 0>>)
            /\ UNCHANGED << results_file, fitted_layers >>
       ELSE /\ fitted_layers' = Append(fitted_layers, layer_name)
            /\ results_file' = Append(results_file, "Fit Results")
            /\ UNCHANGED errs
    /\ pc' = "exit"
    /\ UNCHANGED << beside_layers, inputs, caller, can_create, can_append,
                    exit_status, after_call >>

\* output_file << std::endl; output_file.close(); gSystem->Exit(0);
ExitProcess ==
    /\ pc = "exit"
    /\ results_file' = Append(results_file, "")
    /\ exit_status' = 0
    /\ pc' = "exited"
    /\ UNCHANGED << beside_layers, inputs, errs, caller, can_create, can_append,
                    fitted_layers, after_call >>

\* fit_all_layers after the call: the commands for the other layers are printed
AfterCall ==
    /\ pc = "after_call"
    /\ after_call' = TRUE
    /\ pc' = "returned"
    /\ UNCHANGED << beside_layers, inputs, errs, caller, can_create, can_append,
                    results_file, fitted_layers, exit_status >>

NextLayers ==
    \/ FitAllLayers
    \/ OpenResults
    \/ RunHarness
    \/ ExitProcess
    \/ AfterCall

SpecLayers == InitLayers /\ [][NextLayers]_vars

----------------------------------------------------------------------------
(* batch_plot_analysis.sh and batch_plot_analysis_100p.sh: the loop that runs
   the fit of every task and collects the summary arrays *)

\* ${#ANALYSIS_TASKS[@]}, the number of tasks the model runs through
NumTasks == 3

\* a string read from the output of ROOT for task t, or typed at its prompt
Value(t, text) == [task |-> t, text |-> text]

\* "0", what ${SIGMA:-0} and ${manual_sigma:-0} expand to for an empty variable
Zero == [task |-> -1, text |-> "0"]

\* the last field of the task string
Description(t) == Value(t, "DESCRIPTION")

\* what the output of ROOT holds: a line the first pair of patterns extracts a
\* mean (a sigma) from, a line the alternative pair extracts one from; all
\* FALSE also for the output of a ROOT that failed or was stopped by timeout
RootOutputs == [event_mean : BOOLEAN, event_sigma : BOOLEAN, any_mean : BOOLEAN, any_sigma : BOOLEAN]

\* grep | sed | head -1: the text extracted, empty when no line matches
Extract(present, t, text) == IF present THEN Value(t, text) ELSE Empty

\* MEAN after both extractions: the alternative one runs when the first left it empty
ExtractMean(t, out) ==
    LET first == Extract(out.event_mean, t, "Event Mean")
    IN IF first = Empty THEN Extract(out.any_mean, t, "mean") ELSE first

\* SIGMA after both extractions: the alternative one overwrites it when MEAN was empty
ExtractSigma(t, out) ==
    IF Extract(out.event_mean, t, "Event Mean") = Empty
    THEN Extract(out.any_sigma, t, "sigma")
    ELSE Extract(out.event_sigma, t, "Event Sigma")

\* [ ! -z "$v" ] with the test left out
NonEmptyUntested(v) == TRUE

\* [ ! -z "$v" ]
NonEmpty(v) == v # Empty

\* ${v:-0}
OrZero(v) == IF NonEmpty(v) THEN v ELSE Zero

InitBatch ==
    /\ pc = "batch_loop"
    /\ IdleHarness
    /\ IdleReco
    /\ IdleDisplay
    /\ IdleCell
    /\ IdleEvent
    /\ IdlePick
    /\ IdleLayers
    /\ IdleBatch

\* top of a pass: the task string is split and the input file looked for; a
\* task whose file is missing is skipped
BatchReadTask ==
    /\ pc = "batch_loop"
    /\ task_i < NumTasks
    /\ \E exists \in BOOLEAN :
          IF exists
          THEN pc' = "batch_root" /\ UNCHANGED task_i
          ELSE pc' = "batch_loop" /\ task_i' = task_i + 1
    /\ UNCHANGED << harness, reco_vars, display_vars, cell_vars, event_vars, pick_vars, layers_vars,
                    MEANS, SIGMAS, DESCRIPTIONS, MEAN, SIGMA, choice,
                    manual_mean, manual_sigma >>

\* ROOT runs the macro on the file, MEAN and SIGMA are extracted from its output
BatchExtract ==
    /\ pc = "batch_root"
    /\ \E out \in RootOutputs :
          /\ MEAN' = ExtractMean(task_i, out)
          /\ SIGMA' = ExtractSigma(task_i, out)
    /\ pc' = "batch_store"
    /\ UNCHANGED << harness, reco_vars, display_vars, cell_vars, event_vars, pick_vars, layers_vars,
                    task_i, MEANS, SIGMAS, DESCRIPTIONS, choice,
                    manual_mean, manual_sigma >>

\* "Store results": a mean was extracted
BatchStore ==
    /\ pc = "batch_store"
    /\ NonEmpty(MEAN)
    /\ MEANS' = Append(MEANS, MEAN)
    /\ SIGMAS' = Append(SIGMAS, OrZero(SIGMA))
    /\ DESCRIPTIONS' = Append(DESCRIPTIONS, Description(task_i))
    /\ task_i' = task_i + 1
    /\ pc' = "batch_loop"
    /\ UNCHANGED << harness, reco_vars, display_vars, cell_vars, event_vars, pick_vars, layers_vars,
                    MEAN, SIGMA, choice, manual_mean, manual_sigma >>

\* no mean was extracted: the prompt, and the values typed after the answer "m"
BatchManual ==
    /\ pc = "batch_store"
    /\ ~NonEmpty(MEAN)
    \* the answer to the prompt, empty after the 5 s timeout
    /\ \E c \in {"m", "n", ""} :
          /\ choice' = c
          /\ IF c = "m"
             THEN \E typed_mean, typed_sigma \in BOOLEAN :
                    /\ manual_mean' = Extract(typed_mean, task_i, "manual mean")
                    /\ manual_sigma' = Extract(typed_sigma, task_i, "manual sigma")
                    /\ IF NonEmpty(manual_mean')
                       THEN /\ MEANS' = Append(MEANS, manual_mean')
                            /\ SIGMAS' = Append(SIGMAS, OrZero(manual_sigma'))
                            /\ DESCRIPTIONS' = Append(DESCRIPTIONS, Description(task_i))
                       ELSE UNCHANGED << MEANS, SIGMAS, DESCRIPTIONS >>
             ELSE UNCHANGED << manual_mean, manual_sigma, MEANS, SIGMAS, DESCRIPTIONS >>
    /\ task_i' = task_i + 1
    /\ pc' = "batch_loop"
    /\ UNCHANGED << harness, reco_vars, display_vars, cell_vars, event_vars, pick_vars, layers_vars,
                    MEAN, SIGMA >>

\* all tasks visited: the loop is left
BatchLoopEnd ==
    /\ pc = "batch_loop"
    /\ task_i = NumTasks
    /\ pc' = "batch_done"
    /\ UNCHANGED << harness, reco_vars, display_vars, cell_vars, event_vars, pick_vars, layers_vars,
                    batch_vars >>

NextBatch ==
    \/ BatchReadTask
    \/ BatchExtract
    \/ BatchStore
    \/ BatchManual
    \/ BatchLoopEnd

SpecBatch == InitBatch /\ [][NextBatch]_vars

----------------------------------------------------------------------------
(* Properties *)

\* the entry pushed for slot n, read from the vectors (from the printed copy
\* once the macro has returned)
Pushed(n) ==
    LET r == IF pc = "done" THEN reported ELSE results
    IN r[SuffixOf(n, variant)][BinOf(n, variant)]

LogIdx == 1..Len(fit_log)

\* chi2/ndf of a fit outcome
Chi2Ndf(o) == Div(o.chisquare, o.ndf)

Width == Sub(fit_max, fit_min)

\* C1 - Convergence priority: when the first fit with chi2/ndf below the
\* threshold is the (i+1)-th fit call, the loop returns true right after it,
\* no further fit call is made, and the harness reports i+1 iterations for that
\* sub-distribution, whatever remains of max_iterations.
Thm_C1_ConvergencePriority ==
    /\ (pc \in {"fit", "fitted"} /\ first_good > 0) =>
          /\ good_fit
          /\ fit_calls = first_good
          /\ iteration = first_good - 1
    /\ \A j \in LogIdx :
          fit_log[j].first_good > 0 =>
             /\ fit_log[j].good_fit
             /\ fit_log[j].calls = fit_log[j].first_good
             /\ drawn[j].iterations = fit_log[j].first_good
             /\ Pushed(fit_log[j].slot).iterations = fit_log[j].first_good

\* a sub-distribution converged at its first fit with budget left, and another
\* at its second fit
Wit_C1_ConvergedEarly ==
    /\ pc = "done"
    /\ max_iterations = 2
    /\ \E j \in LogIdx : fit_log[j].first_good = 1 /\ drawn[j].iterations = 1
    /\ \E j \in LogIdx : fit_log[j].first_good = 2 /\ drawn[j].iterations = 2

\* C2 - Iteration cap respected: the iteration count reported for a fitted
\* sub-distribution (one with at least one fit call; the value pushed into the
\* iterations vector and drawn on the pad) is at most max_iterations.
Cex_C2_ReportedWithinCap ==
    \A j \in LogIdx :
        fit_log[j].calls > 0 =>
            /\ drawn[j].iterations <= max_iterations
            /\ Pushed(fit_log[j].slot).iterations <= max_iterations

\* C3 - Iteration exhausted: when no fit call yields chi2/ndf below the
\* threshold, the loop returns false after exactly max_iterations fit calls,
\* the returned mean, sigma and chi2/ndf are those of the last fit call, and the
\* reported iteration count equals max_iterations.
Cex_C3_ExhaustedReportsN ==
    \A j \in LogIdx :
        (max_iterations > 0 /\ fit_log[j].first_good = 0) =>
            /\ ~fit_log[j].good_fit
            /\ fit_log[j].calls = max_iterations
            /\ Pushed(fit_log[j].slot).mu = fit_log[j].out.p1
            /\ Pushed(fit_log[j].slot).sigma = fit_log[j].out.p2
            /\ Pushed(fit_log[j].slot).chi2 = Chi2Ndf(fit_log[j].out)
            /\ Pushed(fit_log[j].slot).iterations = max_iterations
            /\ drawn[j].iterations = max_iterations

\* C4 - Termination priority: the threshold test on the fit just made comes
\* before the cap is consulted again, so when the max_iterations-th fit call
\* yields chi2/ndf below the threshold the result is converged, not exhausted.
Thm_C4_ThresholdBeforeCap ==
    /\ (pc = "fitted" /\ max_iterations > 0 /\ fit_calls = max_iterations
           /\ Less(Chi2Ndf(fit_function), chi2_threshold)) => good_fit
    /\ \A j \in LogIdx :
          (max_iterations > 0 /\ fit_log[j].calls = max_iterations
              /\ Less(Chi2Ndf(fit_log[j].out), chi2_threshold)) => fit_log[j].good_fit

\* the last permitted fit, after a failed one, met the threshold
Wit_C4_ConvergedAtCap ==
    /\ pc = "fitted"
    /\ max_iterations = 2
    /\ fit_calls = 2
    /\ first_good = 2
    /\ good_fit

\* the locals a pass of the harness loop enters the fit loop with
FreshAtEntry ==
    (pc = "fit" /\ fit_calls = 0) =>
        /\ iteration = 0
        /\ ~good_fit
        /\ chi2_ndf = Fin(9990)
        /\ fit_min = Hist(idx).xmin
        /\ fit_max = Hist(idx).xmax
        /\ fit_function = NewTF1

\* the loops visit the names in order, skipping none
VisitedInOrder ==
    /\ pc = "lookup" => looked = 1..(idx - 1)
    /\ pc \in {"fit", "fitted"} => looked = 1..idx

AllVisited == pc = "done" /\ looked = 1..NumSlots(variant)

\* C5 - Failure isolation: whatever the outcome of one sub-distribution
\* (converged, exhausted, degenerate fit values, histogram missing), the loop
\* goes on to every remaining name, each starts from fresh loop state
\* (iteration 0, good_fit false, chi2_ndf 999, the histogram's full axis range,
\* a new fit function), and eventually every name of the layer has been visited.
Thm_C5_FailureIsolation ==
    /\ [](FreshAtEntry /\ VisitedInOrder)
    /\ (pc = "lookup") ~> AllVisited

\* the run ended after a first sub-distribution that was missing or whose fits
\* were degenerate until the cap, and a later one was fitted from fresh state
Wit_C5_WentOnAfterFailure ==
    /\ AllVisited
    /\ max_iterations = 2
    /\ \E j \in LogIdx : /\ ~fit_log[j].good_fit
                         /\ fit_log[j].out = NanFit
                         /\ \E k \in LogIdx : k > j /\ fit_log[k].good_fit
    /\ 1 \notin store

\* the vectors hold one entry per name visited so far, the sentinel exactly
\* for the missing ones
OneEntryPerName(r, upto) ==
    \A s \in 1..NumSuffixes(variant) :
        /\ Len(r[s]) = Cardinality({n \in 1..upto : SuffixOf(n, variant) = s})
        /\ \A i \in 1..Len(r[s]) :
              LET n == (i - 1) * NumSuffixes(variant) + s
              IN IF n \in store
                 THEN r[s][i].iterations >= 1 /\ r[s][i] # Sentinel
                 ELSE r[s][i] = Sentinel

\* C6 - Missing-name resilience: with any subset of the names absent from the
\* file, every result vector ends with one entry per requested name, in the
\* order of the names; the entry of a missing name is the sentinel (NaN, NaN,
\* NaN, -1), no fit call is made for it, and the run is not aborted.
Thm_C6_MissingNameResilience ==
    /\ pc = "lookup" => OneEntryPerName(results, idx - 1)
    /\ pc = "done" => OneEntryPerName(reported, NumSlots(variant))
    /\ fitted_slots \subseteq store
    /\ pc = "returned" => (~layer_ok \/ root_file # "ok")

\* a run over a file that lacks the first name and holds the second has ended
Wit_C6_SomeMissing ==
    /\ pc = "done"
    /\ 1 \notin store
    /\ 2 \in store
    /\ reported[1][1] = Sentinel
    /\ fitted_slots = store

Cex_C8_WindowOrdered ==
    (pc \in {"fit", "fitted"} /\ all_finite) => Less(fit_min, fit_max)

ConsecutiveFailures ==
    /\ pc = "fit"
    /\ iteration > 1001
    /\ iteration' = iteration + 1

\* C9 - Monotone shrink: for consecutive non-converging iterations i and i+1
\* with i > 1000, the window width set at iteration i+1 is at most the width
\* set at iteration i (stated here for fits that return finite means and
\* finite positive sigmas only).
Cex_C9_MonotoneShrink ==
    [][(ConsecutiveFailures /\ all_finite' /\ sigma.v > 0 /\ sigma'.v > 0)
          => LessEq(Width', Width)]_vars

\* C9 as amended: the same, when the fit of iteration i+1 returns a sigma
\* that is not negative and not larger than the sigma of the fit of iteration i.
Thm_C9_ShrinkWhenSigmaShrinks ==
    [][(ConsecutiveFailures /\ all_finite'
          /\ 0 <= sigma'.v /\ sigma'.v <= sigma.v) => LessEq(Width', Width)]_vars

\* past the first breakpoint, a failed fit has made the window strictly narrower
\* than the window it was issued with
Wit_C9_ShrunkPastBreakpoint ==
    /\ pc = "fit"
    /\ iteration > 2002
    /\ all_finite
    /\ ~good_fit
    /\ narrowed
    /\ Less(Fin(0), Width)

\* C10 - Non-finite guard: after a fit returns a non-finite mean or sigma the
\* loop keeps the previous valid window or ends early; no fit call is ever
\* issued with a NaN or infinite fit_min or fit_max.
Cex_C10_NoNonFiniteFitCall ==
    (pc = "fit" /\ LoopCond(good_fit, iteration, max_iterations)) =>
        (IsFinite(fit_min) /\ IsFinite(fit_max))

\* C11 - Degenerate fit is never accepted: the loop never returns good_fit =
\* true on a fit that returned a non-positive or non-finite sigma, or ndf = 0,
\* whatever the chi2 returned with it.
Cex_C11_DegenerateNeverAccepted ==
    (pc \in {"fit", "fitted"} /\ good_fit) =>
        /\ IsFinite(fit_function.p2)
        /\ fit_function.p2.v > 0
        /\ fit_function.ndf # 0

\* C12 - Empty distribution: for a histogram with zero entries, where every
\* fit call returns degenerate output, the loop ends with converged = false
\* after at most two fit calls; it never runs on to max_iterations fit calls.
Cex_C12_EmptyEndsEarly ==
    (hist_empty /\ pc \in {"fit", "fitted"}) =>
        /\ ~good_fit
        /\ fit_calls <= 2

\* C13 - Bounded loop: for every sequence of fit outcomes (NaN and infinite
\* values included) and every max_iterations, one call of the fit loop makes at
\* most max_iterations fit calls and then returns; with max_iterations <= 0 it
\* makes no fit call and returns false.
Thm_C13_BoundedLoop ==
    /\ [](fit_calls <= (IF max_iterations > 0 THEN max_iterations ELSE 0))
    /\ []((max_iterations <= 0 /\ pc = "fitted") => (fit_calls = 0 /\ ~good_fit))
    /\ (pc = "fit") ~> (pc = "fitted")

\* the loop has returned after max_iterations fit calls, having met infinite
\* and NaN values on the way
Wit_C13_ReturnedAtCap ==
    /\ pc = "fitted"
    /\ max_iterations = DefaultMaxIterations
    /\ fit_calls = max_iterations
    /\ ~good_fit
    /\ ~all_finite
    /\ chi2_ndf = PInf

\* C14 - Determinism: two runs of the fit loop on the same distribution, from
\* the same starting window, with the same threshold, cap and schedule and a
\* fit that is a function of the histogram, the window and the fit function's
\* current parameters, issue the same sequence of fit windows and return the
\* same mean, sigma, chi2/ndf, iteration count and converged flag.
Thm_C14_Determinism ==
    (pc = "fitted" /\ first_run.done) => first_run = RunResult

\* both runs have returned after several fit calls that failed the threshold
Wit_C14_TwoRunsAgree ==
    /\ pc = "fitted"
    /\ first_run.done
    /\ Len(first_run.windows) = 3
    /\ Len(windows) = 3
    /\ first_run.good_fit
    /\ windows[2] # windows[3]

\* the schedule as tabulated: multiplier in tenths for each range of counts
ScheduleTable(method, count) ==
    IF method = 1
    THEN CASE count \in 0..1000 -> 20
           [] count \in 1001..3000 -> 17
           [] count > 3000 -> 15
    ELSE CASE count \in 0..1000 -> 20
           [] count \in 1001..2000 -> 17
           [] count \in 2001..3000 -> 15
           [] count \in 3001..4000 -> 10
           [] count > 4000 -> 7

\* C15 - Shrink schedule: the half-width multiplier k is a non-increasing step
\* function of the iteration count at the moment the window is updated; with
\* fit_method = 1 it is 2.0 for counts 0..1000, 1.7 for 1001..3000 and 1.5
\* above; with any other fit_method it is 2.0 for 0..1000, 1.7 for 1001..2000,
\* 1.5 for 2001..3000, 1.0 for 3001..4000 and 0.7 above 4000.
Thm_C15_ShrinkSchedule ==
    /\ [](\A m \in 0..3 :
             /\ Multiplier(m, iteration) = ScheduleTable(m, iteration)
             /\ Multiplier(m, iteration + 1) <= Multiplier(m, iteration))
    /\ [][(pc = "fit" /\ iteration' = iteration + 1) =>
             /\ fit_min' = Sub(mean', Mul(ScheduleTable(fit_method, iteration), sigma'))
             /\ fit_max' = Add(mean', Mul(ScheduleTable(fit_method, iteration), sigma'))]_vars

\* the 5-step schedule has reached its last step: the window set by the fit
\* made at count 4001 is mean -/+ 0.7 sigma
Wit_C15_LastStep ==
    /\ pc = "fit"
    /\ fit_method = 2
    /\ iteration = 4002
    /\ all_finite
    /\ sigma = Fin(20)
    /\ fit_min = Sub(mean, Fin(14))
    /\ fit_max = Add(mean, Fin(14))

\* C16 - Window update step: after every fit that fails the threshold the
\* window becomes mean -/+ k*sigma with the mean and sigma of that fit and k
\* from the schedule at the iteration count before the increment, and the count
\* grows by exactly one; after a fit that meets the threshold neither the
\* window nor the count changes.
Thm_C16_WindowUpdateStep ==
    [][(pc = "fit" /\ pc' = "fit") =>
          /\ mean' = fit_function'.p1
          /\ sigma' = fit_function'.p2
          /\ IF Less(Chi2Ndf(fit_function'), chi2_threshold)
             THEN /\ good_fit'
                  /\ fit_min' = fit_min /\ fit_max' = fit_max
                  /\ iteration' = iteration
             ELSE /\ ~good_fit'
                  /\ fit_min' = Sub(fit_function'.p1,
                                    Mul(Multiplier(fit_method, iteration), fit_function'.p2))
                  /\ fit_max' = Add(fit_function'.p1,
                                    Mul(Multiplier(fit_method, iteration), fit_function'.p2))
                  /\ iteration' = iteration + 1]_vars

\* a fit made at count 1000 failed and set the window with k = 2.0, the next
\* one at count 1001 failed and set it with k = 1.7, and a later fit met the
\* threshold and left that window and the count alone
Wit_C16_UpdatedThenKept ==
    /\ pc = "fit"
    /\ good_fit
    /\ iteration = 1002
    /\ fit_calls = 1003
    /\ fit_function = GoodFit
    /\ fit_min = Fin(-24)
    /\ fit_max = Fin(44)

\* C17 - Distribution is read-only to the fit: the harness fits a clone of the
\* histogram taken from the file, a new clone and a new fit function for every
\* sub-distribution; the histogram objects held by the file are never fitted or
\* modified, and no fit state carries over from one sub-distribution to the next.
Thm_C17_ReadOnlyClone ==
    /\ modified = {}
    /\ pc \in {"fit", "fitted"} => (hist_clone = Clone(idx, made) /\ made = Len(fit_log) + 1)
    /\ pc \in {"lookup", "done"} => (hist_clone = NoClone /\ made = Len(fit_log))
    /\ \A j \in LogIdx : fit_log[j].clone = Clone(fit_log[j].slot, j)
    /\ FreshAtEntry

\* two sub-distributions have been fitted, each on its own clone, the first of
\* them until the cap
Wit_C17_TwoClonesFitted ==
    /\ pc = "done"
    /\ made >= 2
    /\ fit_log[1].calls = 2
    /\ fit_log[2].calls >= 1
    /\ fit_log[1].clone # fit_log[2].clone

\* C18 - Layer selector: the harness accepts exactly the six layer names EMB1,
\* EMB2, EMB3, EME1, EME2, EME3, each mapped to exactly 7 energy-bin names; for
\* any other layer name it returns before the input file is opened, with no fit
\* call, no result entry and no plot.
Thm_C18_LayerSelector ==
    LET six == {"EMB1", "EMB2", "EMB3", "EME1", "EME2", "EME3"} IN
    /\ \A n \in six \cup LayerInputs : LayerValid(n) <=> n \in six
    /\ \A n \in six : Len(layers[n]) = 7 /\ Cardinality({layers[n][i] : i \in 1..7}) = 7
    /\ Bins(variant) <= Len(layers["EMB3"])
    /\ layer_name \in six => (pc = "returned" => SourceUnavailable(root_file))
    /\ layer_name \notin six =>
          /\ pc \in {"start", "returned"}
          /\ looked = {} /\ made = 0
          /\ fitted_slots = {} /\ fit_calls = 0
          /\ results = NoResults /\ reported = NoResults
          /\ drawn = << >> /\ ~saved
          /\ errs = IF pc = "returned" THEN << <<"Invalid layer name", 0>> >> ELSE << >>

\* the harness has returned on a layer name that differs from a valid one in
\* its last character only, with a file that could have been read
Wit_C18_InvalidLayer ==
    /\ pc = "returned"
    /\ layer_name = "EMB4"
    /\ root_file = "ok"
    /\ store # {}

\* elements of a sequence
Range(q) == {q[k] : k \in 1..Len(q)}

\* least element of a set of positive integers, 0 for the empty set
Least(S) == IF S = {} THEN 0 ELSE CHOOSE m \in S : \A n \in S : m <= n

\* the loop over the truth vertices of the current event has been left
VertexLoopOver == pc = "vertex" /\ vtx_i > Len(truthVtx)

\* hard-scatter truth vertices with some hard-scatter reco vertex within distance 2
NearSomeHSReco ==
    {i \in 1..Len(truthVtx) :
        /\ truthVtx[i].hs
        /\ \E r \in 1..Len(recoVtx) :
              recoVtx[r].hs /\ Distance(truthVtx[i].pos, recoVtx[r].pos) <= 2}

\* hard-scatter truth vertices with the first hard-scatter reco vertex of the
\* event within distance 2
NearFirstHSReco ==
    {i \in 1..Len(truthVtx) :
        /\ truthVtx[i].hs
        /\ \E r \in 1..Len(recoVtx) :
              /\ recoVtx[r].hs
              /\ \A q \in 1..(r - 1) : ~recoVtx[q].hs
              /\ Distance(truthVtx[i].pos, recoVtx[r].pos) <= 2}

\* C19 - First valid truth vertex only: for every event at most one truth
\* vertex contributes to the reconstructed-time and cell-count histograms,
\* namely the first hard-scatter truth vertex for which a hard-scatter reco
\* vertex exists within distance 2; vertices before it are skipped, none after
\* it is processed, and eventCellHist is filled at most once per event.
Cex_C19_FirstValidTruthVertex ==
    LET first == Least(NearSomeHSReco) IN
    /\ Len(eventCellFills) <= 1
    /\ Range(eventCellFills) \cup Range(eventTimeFills) \subseteq {first}
    /\ \A j \in Range(truthTimeFills) : first = 0 \/ j <= first
    /\ VertexLoopOver => eventCellFills = (IF first = 0 THEN << >> ELSE << first >>)

\* C19 as amended: the same, the vertex being the first hard-scatter truth
\* vertex that lies within distance 2 of the first hard-scatter reco vertex of
\* the event; truthTimeHist is filled for every hard-scatter truth vertex up to
\* and including it.
Thm_C19_FirstNearFirstHSReco ==
    LET first == Least(NearFirstHSReco) IN
    /\ Len(eventCellFills) <= 1
    /\ Range(eventCellFills) \cup Range(eventTimeFills) \subseteq {first}
    /\ \A j \in Range(truthTimeFills) : first = 0 \/ j <= first
    /\ VertexLoopOver =>
          /\ eventCellFills = (IF first = 0 THEN << >> ELSE << first >>)
          /\ eventTimeFills = (IF first = 0 \/ ncells = 0 THEN << >> ELSE << first >>)
          /\ Range(truthTimeFills) =
                {i \in 1..Len(truthVtx) : truthVtx[i].hs /\ (first = 0 \/ i <= first)}

\* an event whose first hard-scatter truth vertex failed the distance cut and
\* whose second one passed it and filled the histograms
Wit_C19_SecondVertexUsed ==
    /\ VertexLoopOver
    /\ entry = 1
    /\ ncells = 1
    /\ Len(truthVtx) = 2
    /\ truthTimeFills = << 1, 2 >>
    /\ eventCellFills = << 2 >>
    /\ eventTimeFills = << 2 >>

Min(a, b) == IF a <= b THEN a ELSE b

\* C20 - Per-jet histograms after repeated invocations: after any sequence of
\* calls of event_display_analysis_with_cuts in one session, at the end of each
\* call the number of per-jet cell histograms created in that call equals
\* min(20, jets_found), jets_found equals the number of stored jets and
\* jets_found <= 2000; the global counters are reset at the start of every call.
Cex_C20_HistogramsPerCall ==
    /\ jets_found = all_jets_pt
    /\ jets_found <= 2000
    /\ (pc = "idle" /\ calls > 0) => created = Min(20, jets_found)
    /\ (pc = "files" /\ jets_found = 0) => jets_with_histograms = 0

\* C21 - Iteration count equals fit-call count: at every point of the fit loop
\* iteration is the number of fit calls that failed the threshold, the number of
\* fit calls made so far is iteration + (1 if good_fit else 0), and on every
\* exit path (converged, exhausted, max_iterations <= 0) the reported value
\* iteration + 1 equals the number of fit calls actually performed.
Cex_C21_IterationIsFitCallCount ==
    /\ pc \in {"fit", "fitted"} =>
          fit_calls = iteration + (IF good_fit THEN 1 ELSE 0)
    /\ pc = "fitted" => IterationsUsed(iteration) = fit_calls
    /\ \A j \in LogIdx :
          /\ drawn[j].iterations = fit_log[j].calls
          /\ Pushed(fit_log[j].slot).iterations = fit_log[j].calls

\* the fit loop of the current run has returned
LoopReturned ==
    \/ pc = "fitted"
    \/ pc = "fit" /\ ~LoopCond(good_fit, iteration, max_iterations)

\* C22 - Reported window matches the reported fit: whenever the fit loop
\* returns after at least one fit call, the returned [fit_min, fit_max] (drawn
\* as the "Fit Range" lines) is the window over which the returned mean, sigma
\* and chi2/ndf were fitted.
Cex_C22_WindowOfReportedFit ==
    (LoopReturned /\ windows # << >>) =>
        /\ mean = fit_function.p1
        /\ sigma = fit_function.p2
        /\ chi2_ndf = Chi2Ndf(fit_function)
        /\ << fit_min, fit_max >> = windows[Len(windows)]

\* the passes of plot_tracks that fitted a histogram of suffix s, in order
FittedOf(s) == SelectSeq(fit_log, LAMBDA e : SuffixOf(e.slot, variant) = s)

\* C23 - Result alignment in plot_tracks: after plot_tracks finishes, each of
\* mu_HS, mu_PU, mu_other, sigma_HS, sigma_PU, sigma_other has one entry per
\* energy bin of the layer (7) and entry i belongs to the i-th energy bin, also
\* when some of the histograms are missing from the file.
Cex_C23_TracksAligned ==
    (pc = "done" /\ variant = "plot_tracks") =>
        \A s \in 1..NumSuffixes(variant) :
            /\ Len(reported[s]) = Bins(variant)
            /\ Len(FittedOf(s)) = Len(reported[s])
            /\ \A i \in 1..Len(reported[s]) : BinOf(FittedOf(s)[i].slot, variant) = i

\* quality tracks within DeltaR <= 0.05 of the cell, by index
NearTracks(tracks) ==
    {k \in 1..Len(tracks) : tracks[k].quality # 0 /\ tracks[k].dr <= 5}

\* those of them that no other one exceeds in pt
TopTracks(tracks) ==
    {k \in NearTracks(tracks) : \A j \in NearTracks(tracks) : tracks[j].pt <= tracks[k].pt}

\* C24 - Track-match veto is order independent: a cell that passed the energy,
\* significance, bin and layer cuts contributes to the time average if and only
\* if at least one quality track lies within DeltaR <= 0.05 of it and the
\* highest-pt such track has truth origin != 0, whatever the order in which the
\* tracks are stored (stated here for cells whose highest-pt such track is
\* unique).
Cex_C24_VetoByHighestPt ==
    (pc = "selected" /\ cell_out.passed /\ Cardinality(TopTracks(cell.tracks)) <= 1) =>
        (cell_out.used <=>
            \E k \in TopTracks(cell.tracks) : cell.tracks[k].origin # 0)

\* the bin lookup as tabulated, energies in tenths
BinTable(e) ==
    CASE e <= 10 -> -1
      [] e \in 11..15 -> 0
      [] e \in 16..20 -> 1
      [] e \in 21..30 -> 2
      [] e \in 31..40 -> 3
      [] e \in 41..50 -> 4
      [] e \in 51..100 -> 5
      [] e > 100 -> 6

\* the lookup agrees with the table and does not decrease, over the energies
\* from -1.0 to MaxEnergy
BinLookupAsTabulated ==
    \A e \in (0 - 10)..MaxEnergy :
        /\ EnergyBin(e) = BinTable(e)
        /\ EnergyBin(e) <= EnergyBin(e + 1)

\* C29 - Energy-bin lookup: the bin index is a total function of the cell
\* energy e: none (-1) for e <= 1, 0 for 1 < e <= 1.5, 1 for 1.5 < e <= 2, 2 for
\* 2 < e <= 3, 3 for 3 < e <= 4, 4 for 4 < e <= 5, 5 for 5 < e <= 10, 6 for
\* e > 10; the index is non-decreasing in e, and a cell with no bin (including
\* e exactly equal to the energy threshold of 1.0) contributes to no sum and no
\* counter.
Thm_C29_EnergyBinLookup ==
    /\ BinLookupAsTabulated
    /\ pc = "selected" =>
          /\ PassesCuts(cell) => cell_out.bin = BinTable(cell.e)
          /\ cell_out.bin = -1 => (~cell_out.used /\ ~cell_out.emb /\ ~cell_out.eme)

\* a cell at exactly the threshold, with a hard-scatter track on it, went
\* through the pass and was not used
Wit_C29_CellAtThreshold ==
    /\ pc = "selected"
    /\ cell.e = 10
    /\ PassesCuts(cell)
    /\ cell.is_barrel /\ cell.layer = 2
    /\ TrackMatched(cell.tracks)
    /\ cell_out.bin = -1
    /\ ~cell_out.used

\* C25 - Cell count per vertex: the value filled into eventCellHist (and
\* embCellHist, emeCellHist) for a truth vertex equals the number of cells that
\* contributed to that vertex's weighted sum, so an event-time value is filled
\* for the vertex exactly when its eventCellHist fill is greater than 0; this
\* holds also for events with more than one hard-scatter truth vertex.
Cex_C25_CellCountPerVertex ==
    \A k \in 1..Len(cellCounts) :
        /\ cellCounts[k].all = cellCounts[k].used
        /\ cellCounts[k].emb = cellCounts[k].used_emb
        /\ cellCounts[k].eme = cellCounts[k].used_eme
        /\ (cellCounts[k].vtx \in Range(eventTimeFills)) <=> (cellCounts[k].all > 0)

\* a call of event_display_analysis is under way
Picking == pc \in {"pick_files", "pick_entries"}

\* C26 - Event display picks one event per jet count: for each target jet
\* count c in 1..8, found_events[c] only ever changes from false to true within
\* a call, at most one event is recorded for c (the first event with exactly c
\* selected jets and a valid truth vertex), the number of jets stored for c is
\* 0 or exactly c, and once all eight counts are found no further event or
\* file is processed.
Thm_C26_OneEventPerJetCount ==
    /\ [](\A c \in target_jet_counts :
             /\ jets_stored[c] \in {0, c}
             /\ found_events[c] <=> jets_stored[c] = c
             /\ Picking => (found_events[c] <=> c \in seen))
    /\ [][\A c \in target_jet_counts : (Picking /\ found_events[c]) => found_events'[c]]_vars
    /\ [][AllEventsFound(found_events) =>
             /\ pick_entry' # pick_entry + 1
             /\ ~(pc = "pick_files" /\ pc' = "pick_entries")]_vars

\* all eight counts were found in a second call, with events of the file left
\* unread
Wit_C26_AllFoundEarly ==
    /\ pc = "pick_entries"
    /\ pick_calls = 2
    /\ AllEventsFound(found_events)
    /\ pick_entry < nEntries
    /\ \A c \in target_jet_counts : jets_stored[c] = c

\* the function the user called has returned or the process has ended
LayersOver == pc \in {"returned", "exited"}

\* the results file begins with the two header lines
HeaderWritten ==
    /\ Len(results_file) >= 2
    /\ results_file[1] = "Fit started at"
    /\ results_file[2] = "Input file"

\* what a call of either function does once the results file exists
SingleLayerRun ==
    /\ Len(fitted_layers) <= 1
    /\ pc \in {"exit", "exited"} =>
          (fitted_layers # << >> <=> (LayerValid(layer_name) /\ ~SourceUnavailable(root_file)))
    /\ exit_status \in {-1, 0}
    /\ exit_status = 0 <=> pc = "exited"
    /\ (pc = "returned" /\ caller = "process_single_layer") => ~can_append
    /\ after_call => ~can_append
    /\ (LayersOver /\ can_append /\ (caller = "process_single_layer" \/ can_create)) =>
          (pc = "exited" /\ ~after_call)

\* C27 - fit_all_layers processes one layer: a call of fit_all_layers writes
\* the header to the results file, runs the fits of layer EMB1 only, and the
\* process ends inside process_single_layer (exit status 0, also when the layer
\* name is invalid or the input file cannot be opened) before any statement
\* after that call runs; process_single_layer returns without ending the
\* process only when the results file cannot be opened for appending.
Cex_C27_FitAllLayersOneLayer ==
    /\ SingleLayerRun
    /\ (caller = "fit_all_layers" /\ LayersOver) =>
          /\ HeaderWritten
          /\ \A k \in 1..Len(fitted_layers) : fitted_layers[k] = "EMB1"
          /\ pc = "returned" => ~can_append

\* C27 as amended: the same for a call of fit_all_layers whose results file can
\* be created; when it cannot be created fit_all_layers returns with an error
\* message, nothing is written, no fit is run and the process does not end.
Thm_C27_OneLayerWhenFileCreated ==
    /\ SingleLayerRun
    /\ (caller = "fit_all_layers" /\ LayersOver) =>
          IF can_create
          THEN /\ HeaderWritten
               /\ \A k \in 1..Len(fitted_layers) : fitted_layers[k] = "EMB1"
               /\ pc = "returned" => ~can_append
          ELSE /\ pc = "returned"
               /\ results_file = << >>
               /\ fitted_layers = << >>
               /\ exit_status = -1
               /\ ~after_call
               /\ errs = << <<"Could not create output file", 0>> >>

\* fit_all_layers ended the process inside process_single_layer although the
\* input file could not be opened: the header and the layer line are in the
\* results file and no fit was run
Wit_C27_ExitedWithoutFits ==
    /\ pc = "exited"
    /\ caller = "fit_all_layers"
    /\ root_file = "zombie"
    /\ exit_status = 0
    /\ fitted_layers = << >>
    /\ results_file = << "Fit started at", "Input file", "Processing", "" >>
    /\ ~after_call

\* the three arrays have one entry per stored task, in the order of the tasks,
\* and the entries at one index come from the same task
ArraysAligned ==
    /\ Len(MEANS) = Len(SIGMAS)
    /\ Len(SIGMAS) = Len(DESCRIPTIONS)
    /\ Len(MEANS) <= task_i
    /\ Len(MEANS) <= NumTasks
    /\ \A k \in 1..Len(DESCRIPTIONS) :
          LET t == DESCRIPTIONS[k].task IN
          /\ DESCRIPTIONS[k] = Description(t)
          /\ t \in 0..(task_i - 1)
          /\ \A j \in 1..(k - 1) : DESCRIPTIONS[j].task < t
          /\ MEANS[k].task = t
          /\ SIGMAS[k] = Zero \/ SIGMAS[k].task = t
          /\ MEANS[k].text \in {"Event Mean", "mean"} =>
                SIGMAS[k].text \in {"Event Sigma", "sigma", "0"}
          /\ MEANS[k].text = "manual mean" => SIGMAS[k].text \in {"manual sigma", "0"}

\* a pass over a task whose file is missing, or whose mean could not be
\* extracted and was not typed in, adds nothing to the arrays
SkippedTaskAddsNothing ==
    LET missing == pc = "batch_loop" /\ pc' = "batch_loop"
        unextracted == /\ pc = "batch_store"
                       /\ MEAN = Empty
                       /\ ~(choice' = "m" /\ manual_mean' # Empty)
    IN (missing \/ unextracted) =>
          /\ task_i' = task_i + 1
          /\ UNCHANGED << MEANS, SIGMAS, DESCRIPTIONS >>

\* C28 - Batch summary arrays stay aligned: throughout batch_plot_analysis.sh
\* the arrays MEANS, SIGMAS and DESCRIPTIONS have the same length, entry i of
\* each belongs to the same task, a task whose input file is missing or whose
\* mean could not be extracted (and was not entered by hand) adds to none of
\* them, and their length never exceeds the number of tasks.
Thm_C28_SummaryArraysAligned ==
    /\ []ArraysAligned
    /\ [][SkippedTaskAddsNothing]_vars

\* the loop is over: the first task was skipped, the second stored with a sigma
\* of "0", the third entered by hand
Wit_C28_SkippedStoredTyped ==
    /\ pc = "batch_done"
    /\ Len(MEANS) = 2
    /\ DESCRIPTIONS = << Description(1), Description(2) >>
    /\ SIGMAS[1] = Zero
    /\ MEANS[2] = Value(2, "manual mean")
    /\ SIGMAS[2] = Value(2, "manual sigma")

====
